---- MODULE Spec2Model ----
(***************************************************************************)
(* A model of obfuskey-js: the BigInt number-theory helpers, the alphabet  *)
(* codec (encode / decode), the Obfuskey obfuscator and the Obfusbit       *)
(* schema and packer.                                                      *)
(*                                                                         *)
(* Strings are sequences of one-character strings.  A call's outcome is a  *)
(* record [err, val]: err = "" for a normal return, else the name of the   *)
(* error class thrown.  An optional value is <<>> (undefined) or <<x>>.    *)
(***************************************************************************)
EXTENDS Integers, Sequences, FiniteSets, TLC

VARIABLES
    op,            \* the last call of a pure math function: name, args, outcome
    root,          \* the running / finished call of isqrt (its while loop)
    enc,           \* the running / finished call of encode (its while loop)
    dec,           \* the last call of decode
    alphabet,      \* Obfuskey.__alphabet (the alphabet string)
    keyLength,     \* Obfuskey.__keyLength
    maximumValue,  \* Obfuskey.__maximumValue
    multiplier,    \* Obfuskey.__multiplier: <<>> while undefined, else <<m>>
    kop,           \* the last call on the Obfuskey: name, outcome
    lastKey,       \* the last key getKey handed out, with the value it stands for
    reads,         \* the reads of obfuskey.multiplier under way, one per reader
    definition,    \* ObfusbitSchema.__definition
    fieldInfo,     \* ObfusbitSchema.__fieldInfo: name -> [bits, shift]
    fieldNames,    \* ObfusbitSchema.__fieldNames
    totalBits,     \* ObfusbitSchema.__totalBits
    schemaMaximumValue, \* ObfusbitSchema.__maximumValue
    obfuskey,      \* Obfusbit.__obfuskey is set
    bop,           \* the last call on the schema / Obfusbit: name, outcome
    lastPack,      \* the last assignment pack accepted, with what it returned
    bytesCall      \* the Uint8Array packBytes returned / unpackBytes was given

vars == <<op, root, enc, dec, alphabet, keyLength, maximumValue, multiplier, kop,
          lastKey, reads, definition, fieldInfo, fieldNames, totalBits,
          schemaMaximumValue, obfuskey, bop, lastPack, bytesCall>>

mathVars == <<op, root>>
codecVars == <<enc, dec>>
keyVars == <<alphabet, keyLength, maximumValue, multiplier, kop, lastKey, reads>>
bitVars == <<definition, fieldInfo, fieldNames, totalBits, schemaMaximumValue,
             obfuskey, bop, lastPack, bytesCall>>

----------------------------------------------------------------------------
(* Bounds of the model *)

\* getNextPrime and isPrime are called with n in -MaxNeg .. MaxN
MaxN == 1500
MaxNeg == 3
\* modInv is called with base in -MaxModBase .. MaxModBase, mod in -1 .. MaxMod
MaxModBase == 12
MaxMod == 12
\* pow is called with base in -MaxPowBase .. MaxPowBase, exponent in
\* -1 .. MaxPowExponent and a modulus that is left out or lies in
\* -MaxPowModulus .. MaxPowModulus
MaxPowBase == 4
MaxPowExponent == 5
MaxPowModulus == 6
\* getNextPrime is called with 2^k - 1, 2^k and 2^k + 1 for the k at most this far
\* from the bit limit
PowerMargin == 2
\* the callers that read obfuskey.multiplier at the same time
MaxReaders == 2
\* unpack is called with the integers from MaxUnpackMargin below 0 to
\* MaxUnpackMargin above the maximumValue of the schema
MaxUnpackMargin == 4
\* getKey of an Obfuskey next to the bit limit is called with -1 .. MaxPowerValue
MaxPowerValue == 3
\* isqrt is called with n in -MaxNeg .. MaxIsqrtN
MaxIsqrtN == 300
\* isStrongPseudoprime is called with n in 0 .. MaxStrongN and base in
\* -1 .. MaxStrongBase
MaxStrongN == 45
MaxStrongBase == 24
MaxAboveLimit == 150
\* schemas of at most MaxSchemaLen items with bits in -1 .. MaxSchemaBits are
\* handed to the constructor
MaxSchemaLen == 2
MaxSchemaBits == 2
\* encode is called with value in -1 .. MaxEncodeValue; its loop is followed for at
\* most MaxEncodeSteps iterations; decode is called with strings of at most
\* MaxDecodeLen characters
MaxEncodeValue == 30
MaxEncodeSteps == 6
MaxDecodeLen == 3
\* an Obfuskey is built with keyLength in -1 .. MaxKeyLength and a multiplier that
\* is left out or lies in -MaxNegMultiplier .. MaxMultiplier
MaxKeyLength == 2
MaxMultiplier == 9
MaxNegMultiplier == 3
\* pack and validateFields are called with field values in -1 .. MaxFieldValue
MaxFieldValue == 3
\* the caller grows the schema array it shares with the schema up to this length
MaxMutatedLen == 3

----------------------------------------------------------------------------
(* Outcomes and BigInt arithmetic *)

Ok(v) == [err |-> "", val |-> v]
Err(e) == [err |-> e, val |-> 0]

\* const v = <a call>: the outcome of a call, named once and used by F
Bind(v, F(_)) == F(v)

Abs(a) == IF a < 0 THEN -a ELSE a

\* BigInt `/` truncates toward zero; `%` takes the sign of the dividend.
JsDiv(a, b) == IF (a >= 0) = (b > 0) THEN Abs(a) \div Abs(b) ELSE -(Abs(a) \div Abs(b))
JsRem(a, b) == a - b * JsDiv(a, b)

RECURSIVE Pow2(_)
Pow2(k) == IF k <= 0 THEN 1 ELSE 2 * Pow2(k - 1)

\* BigInt `**` with a non-negative exponent
RECURSIVE IntPow(_, _)
IntPow(b, e) == IF e <= 0 THEN 1 ELSE b * IntPow(b, e - 1)

----------------------------------------------------------------------------
(* src/math *)

RECURSIVE gcdLoop(_, _)
gcdLoop(a, b) == IF b # 0 THEN gcdLoop(b, JsRem(a, b)) ELSE a

gcd(a, b) == gcdLoop(Abs(a), Abs(b))

divmod(a, b) ==
    IF b = 0 THEN Err("RangeError")
    ELSE LET q == JsDiv(a, b)
             r == JsRem(a, b)
         IN  IF r # 0 /\ ((r < 0 /\ b > 0) \/ (r > 0 /\ b < 0))
             THEN Ok(<<q - 1, r + b>>)
             ELSE Ok(<<q, r>>)

\* num.toString(2).length for num > 0
RECURSIVE BinaryDigits(_)
BinaryDigits(num) == IF num < 2 THEN 1 ELSE 1 + BinaryDigits(num \div 2)

getBitLength(n) ==
    IF n < 0 THEN Err("ValueError")
    ELSE IF n = 0 THEN Ok(0)
    ELSE Ok(BinaryDigits(n))

\* the first guess taken half a bit too low
isqrtGuess_Low(n) == Pow2(getBitLength(n).val \div 2)

\* 1n << ((getBitLength(n) + 1n) >> 1n)
isqrtGuess(n) == Pow2((getBitLength(n).val + 1) \div 2)

\* (x0 + n / x0) >> 1n
isqrtNewton(n, x0) == (x0 + JsDiv(n, x0)) \div 2

RECURSIVE isqrtLoop(_, _, _)
isqrtLoop(n, x0, x1) ==
    IF x1 < x0 THEN isqrtLoop(n, x1, isqrtNewton(n, x1)) ELSE x0

isqrt(n) ==
    IF n < 0 THEN Err("RangeError")
    ELSE IF n < 2 THEN Ok(n)
    ELSE Ok(isqrtLoop(n, isqrtGuess(n), isqrtNewton(n, isqrtGuess(n))))

\* isqrt statement by statement; pc is "idle", "call", "loop" or "done", steps
\* counts the iterations of the while loop
RootCall(pc, n, x0, x1, steps, err, val) ==
    [pc |-> pc, n |-> n, x0 |-> x0, x1 |-> x1, steps |-> steps, err |-> err, val |-> val]

RootIdle == RootCall("idle", 0, 0, 0, 0, "", 0)

\* lines 12-25: the checks and the first two guesses
IsqrtEnter ==
    /\ root.pc = "call"
    /\ root' = IF root.n < 0
               THEN RootCall("done", root.n, 0, 0, 0, "RangeError", 0)
               ELSE IF root.n < 2
               THEN RootCall("done", root.n, 0, 0, 0, "", root.n)
               ELSE RootCall("loop", root.n, isqrtGuess(root.n),
                             isqrtNewton(root.n, isqrtGuess(root.n)), 0, "", 0)
    /\ UNCHANGED <<op, codecVars, keyVars, bitVars>>

\* lines 27-30: one iteration of while (x1 < x0)
IsqrtStep ==
    /\ root.pc = "loop" /\ root.x1 < root.x0
    /\ root' = [root EXCEPT !.x0 = root.x1, !.x1 = isqrtNewton(root.n, root.x1),
                            !.steps = @ + 1]
    /\ UNCHANGED <<op, codecVars, keyVars, bitVars>>

\* line 32: return x0
IsqrtReturn ==
    /\ root.pc = "loop" /\ ~(root.x1 < root.x0)
    /\ root' = [root EXCEPT !.pc = "done", !.val = root.x0]
    /\ UNCHANGED <<op, codecVars, keyVars, bitVars>>

\* for (let i = 3n; i <= limit; i += 2n): false at the first i dividing n
trialDivisionLoop(n, i, limit) ==
    \A j \in {i + 2 * k : k \in 0..((limit - i) \div 2)} : JsRem(n, j) # 0

\* the loop stops one short of the limit
trialDivision_ExclusiveLimit(n) ==
    IF n <= 1 THEN FALSE
    ELSE IF n = 2 \/ n = 3 THEN TRUE
    ELSE IF JsRem(n, 2) = 0 THEN FALSE
    ELSE trialDivisionLoop(n, 3, isqrt(n).val - 1)

trialDivision(n) ==
    IF n <= 1 THEN FALSE
    ELSE IF n = 2 \/ n = 3 THEN TRUE
    ELSE IF JsRem(n, 2) = 0 THEN FALSE
    ELSE trialDivisionLoop(n, 3, isqrt(n).val)

\* acc + x * y under the modulus m > 0, for 0 <= acc, x < m
RECURSIVE MulRemLoop(_, _, _, _)
MulRemLoop(acc, x, y, m) ==
    IF y = 0 THEN acc
    ELSE MulRemLoop(IF y % 2 = 1 THEN (acc + x) % m ELSE acc, (x + x) % m, y \div 2, m)

\* (a * b) % m of BigInts: the product itself where it fits in 32 bits, and
\* otherwise its remainder summed from doublings, with the sign of the product
MulRem(a, b, m) ==
    IF Abs(a) <= 46340 /\ Abs(b) <= 46340 THEN JsRem(a * b, m)
    ELSE IF (a < 0) = (b < 0)
         THEN MulRemLoop(0, Abs(a) % Abs(m), Abs(b) % Abs(m), Abs(m))
         ELSE -MulRemLoop(0, Abs(a) % Abs(m), Abs(b) % Abs(m), Abs(m))

\* the loop squaring the base before it multiplies the result by it
RECURSIVE powLoop_SquareFirst(_, _, _, _)
powLoop_SquareFirst(result, currentBase, currentExponent, modulus) ==
    IF currentExponent > 0
    THEN LET b == IF modulus # <<>>
                  THEN MulRem(currentBase, currentBase, modulus[1])
                  ELSE currentBase * currentBase
             r == IF JsRem(currentExponent, 2) = 1
                  THEN IF modulus # <<>>
                       THEN MulRem(result, b, modulus[1])
                       ELSE result * b
                  ELSE result
         IN  powLoop_SquareFirst(r, b, JsDiv(currentExponent, 2), modulus)
    ELSE IF modulus # <<>> THEN JsRem(result + modulus[1], modulus[1]) ELSE result

RECURSIVE powLoop(_, _, _, _)
powLoop(result, currentBase, currentExponent, modulus) ==
    IF currentExponent > 0
    THEN LET r == IF JsRem(currentExponent, 2) = 1
                  THEN IF modulus # <<>>
                       THEN MulRem(result, currentBase, modulus[1])
                       ELSE result * currentBase
                  ELSE result
             b == IF modulus # <<>>
                  THEN MulRem(currentBase, currentBase, modulus[1])
                  ELSE currentBase * currentBase
         IN  powLoop(r, b, JsDiv(currentExponent, 2), modulus)
    ELSE IF modulus # <<>> THEN JsRem(result + modulus[1], modulus[1]) ELSE result

\* modulus is <<>> when the third argument is left out
pow(base, exponent, modulus) ==
    IF exponent < 0 THEN Err("NegativeValueError")
    ELSE IF modulus # <<>> /\ modulus[1] = 0 THEN Err("ValueError")
    ELSE IF exponent = 0 THEN Ok(IF modulus # <<>> /\ modulus[1] = 1 THEN 0 ELSE 1)
    ELSE IF base = 0 THEN Ok(0)
    ELSE IF modulus # <<>> /\ modulus[1] = 1 THEN Ok(0)
    ELSE LET currentBase ==
                 IF modulus # <<>>
                 THEN JsRem(JsRem(base, modulus[1]) + modulus[1], modulus[1])
                 ELSE base
         IN  Ok(powLoop(1, currentBase, exponent, modulus))

RECURSIVE factorLoop(_, _)
factorLoop(s, d) == IF JsRem(d, 2) = 0 THEN factorLoop(s + 1, JsDiv(d, 2)) ELSE <<s, d>>

factor(n) == IF n <= 1 THEN Err("ValueError") ELSE Ok(factorLoop(0, n - 1))

\* val: what the loop returns; squared: the calls of pow(x, 2n, n) it made
RECURSIVE strongLoop(_, _, _, _)
strongLoop(n, x, i, s) ==
    IF i < s
    THEN LET x2 == pow(x, 2, <<n>>).val
         IN  IF x2 = n - 1 THEN [val |-> TRUE, squared |-> i + 1]
             ELSE IF x2 = 1 THEN [val |-> FALSE, squared |-> i + 1]
             ELSE strongLoop(n, x2, i + 1, s)
    ELSE [val |-> FALSE, squared |-> i]

\* the run that passes the first x only when it is n - 1
isStrongPseudoprimeRun_NoOne(n, base) ==
    IF n % 2 = 0 THEN [val |-> FALSE, squared |-> 0]
    ELSE IF n = 1 THEN [val |-> FALSE, squared |-> 0]
    ELSE LET sd == factor(n).val
             x == pow(base, sd[2], <<n>>).val
         IN  IF x = n - 1 THEN [val |-> TRUE, squared |-> 0]
             ELSE strongLoop(n, x, 0, sd[1])

\* isStrongPseudoprime(n, base) with the number of squarings of its loop
isStrongPseudoprimeRun(n, base) ==
    IF n % 2 = 0 THEN [val |-> FALSE, squared |-> 0]
    ELSE IF n = 1 THEN [val |-> FALSE, squared |-> 0]
    ELSE LET sd == factor(n).val
             x == pow(base, sd[2], <<n>>).val
         IN  IF x = 1 \/ x = n - 1 THEN [val |-> TRUE, squared |-> 0]
             ELSE strongLoop(n, x, 0, sd[1])

isStrongPseudoprime(n, base) == isStrongPseudoprimeRun(n, base).val

bases == <<2, 13, 23, 1662803>>

isSmallStrongPseudoprime(n) ==
    \A k \in 1..Len(bases) : isStrongPseudoprime(n, bases[k])

SmallPrimeProduct == 510510
TrialDivisionLimit == 2000000

\* isPrime handing every n without a factor up to 17 to the witness bases
isPrime_NoTrialDivision(n) ==
    IF n < 2 THEN FALSE
    ELSE IF n = 2 \/ n = 3 \/ n = 5 THEN TRUE
    ELSE IF JsRem(n, 2) = 0 \/ JsRem(n, 3) = 0 \/ JsRem(n, 5) = 0 THEN FALSE
    ELSE IF gcd(n, SmallPrimeProduct) > 1 THEN n \in {7, 11, 13, 17}
    ELSE isSmallStrongPseudoprime(n)

isPrime(n) ==
    IF n < 2 THEN FALSE
    ELSE IF n = 2 \/ n = 3 \/ n = 5 THEN TRUE
    ELSE IF JsRem(n, 2) = 0 \/ JsRem(n, 3) = 0 \/ JsRem(n, 5) = 0 THEN FALSE
    ELSE IF gcd(n, SmallPrimeProduct) > 1 THEN n \in {7, 11, 13, 17}
    ELSE IF n < TrialDivisionLimit THEN trialDivision(n)
    ELSE isSmallStrongPseudoprime(n)

gap == <<1, 6, 5, 4, 3, 2, 1, 4, 3, 2, 1, 2, 1, 4, 3, 2, 1, 2, 1, 4, 3, 2, 1,
         6, 5, 4, 3, 2, 1, 2>>

MaxBitLength == 512

RECURSIVE nextPrimeLoop(_)
nextPrimeLoop(n) ==
    IF ~isPrime(n) THEN nextPrimeLoop(n + gap[JsRem(n, 30) + 1]) ELSE n

\* getNextPrime that makes n odd without stepping past it
getNextPrime_FromN(n) ==
    LET bits == getBitLength(n)
    IN  IF bits.err # "" THEN [err |-> bits.err, val |-> 0, tested |-> FALSE]
        ELSE IF bits.val > MaxBitLength
        THEN [err |-> "MaximumValueError", val |-> 0, tested |-> FALSE]
        ELSE IF n < 2 THEN [err |-> "", val |-> 2, tested |-> FALSE]
        ELSE IF n < 5 THEN [err |-> "", val |-> <<3, 5, 5>>[n - 2 + 1], tested |-> FALSE]
        ELSE LET n1 == n + ((n + 1) % 2)
                 n2 == IF JsRem(n1, 3) = 0 \/ JsRem(n1, 5) = 0
                       THEN n1 + gap[JsRem(n1, 30) + 1]
                       ELSE n1
             IN  [err |-> "", val |-> nextPrimeLoop(n2), tested |-> TRUE]

\* tested: the call reached its first isPrime (the while loop of line 74)
getNextPrime(n) ==
    LET bits == getBitLength(n)
    IN  IF bits.err # "" THEN [err |-> bits.err, val |-> 0, tested |-> FALSE]
        ELSE IF bits.val > MaxBitLength
        THEN [err |-> "MaximumValueError", val |-> 0, tested |-> FALSE]
        ELSE IF n < 2 THEN [err |-> "", val |-> 2, tested |-> FALSE]
        ELSE IF n < 5 THEN [err |-> "", val |-> <<3, 5, 5>>[n - 2 + 1], tested |-> FALSE]
        ELSE LET n1 == n + 1 + (n % 2)
                 n2 == IF JsRem(n1, 3) = 0 \/ JsRem(n1, 5) = 0
                       THEN n1 + gap[JsRem(n1, 30) + 1]
                       ELSE n1
             IN  [err |-> "", val |-> nextPrimeLoop(n2), tested |-> TRUE]

\* (2^k + d).toString(2) for k >= 2 and d in -1 .. 1, as a sequence of digits
BinaryOfPower(k, d) ==
    IF d < 0 THEN [i \in 1..k |-> 1]
    ELSE [i \in 1..(k + 1) |-> IF i = 1 \/ (d = 1 /\ i = k + 1) THEN 1 ELSE 0]

\* getBitLength(2^k + d): BigInt(num.toString(2).length)
getBitLengthOfPower(k, d) == Ok(Len(BinaryOfPower(k, d)))

\* rejects the numbers of MaxBitLength bits too
getNextPrimeOfPower_AtLeast(k, d) ==
    IF getBitLengthOfPower(k, d).val >= MaxBitLength
    THEN [err |-> "MaximumValueError", val |-> 0, tested |-> FALSE]
    ELSE [err |-> "", val |-> 0, tested |-> TRUE]

\* getNextPrime(2^k + d) for a number beyond the integers of the model: the
\* number is above 5, so that a call that is not rejected goes on to the search,
\* whose result is not computed (val stays 0)
getNextPrimeOfPower(k, d) ==
    IF getBitLengthOfPower(k, d).val > MaxBitLength
    THEN [err |-> "MaximumValueError", val |-> 0, tested |-> FALSE]
    ELSE [err |-> "", val |-> 0, tested |-> TRUE]

RECURSIVE modInvLoop(_, _, _, _)
modInvLoop(r_prev, r_curr, t_prev, t_curr) ==
    IF r_curr # 0
    THEN LET q == JsDiv(r_prev, r_curr)
         IN  modInvLoop(r_curr, r_prev - q * r_curr, t_curr, t_prev - q * t_curr)
    ELSE <<r_prev, t_prev>>

\* the final remainder is not checked
modInv_NoCoprimeCheck(base, mod) ==
    IF mod <= 0 THEN Err("NegativeValueError")
    ELSE LET a_init == JsRem(JsRem(base, mod) + mod, mod)
             end == modInvLoop(mod, a_init, 0, 1)
         IN  Ok(JsRem(JsRem(end[2], mod) + mod, mod))

modInv(base, mod) ==
    IF mod <= 0 THEN Err("NegativeValueError")
    ELSE LET a_init == JsRem(JsRem(base, mod) + mod, mod)
             end == modInvLoop(mod, a_init, 0, 1)
         IN  IF end[1] # 1 THEN Err("ValueError")
             ELSE Ok(JsRem(JsRem(end[2], mod) + mod, mod))

----------------------------------------------------------------------------
(* Calls of the pure math functions *)

\* A call is drawn with its arguments (done = FALSE) and then made
NoCall == [name |-> "", args |-> <<>>, done |-> FALSE, err |-> "", val |-> 0,
           tested |-> FALSE]

Pending(name, args) == [NoCall EXCEPT !.name = name, !.args = args]

Return(r) == [op EXCEPT !.done = TRUE, !.err = r.err, !.val = r.val]

CallIsPrime ==
    /\ op.name = "isPrime" /\ ~op.done
    /\ op' = Return(Ok(isPrime(op.args[1])))
    /\ UNCHANGED <<root, codecVars, keyVars, bitVars>>

CallGetNextPrime ==
    /\ op.name = "getNextPrime" /\ ~op.done
    /\ \E r \in {getNextPrime(op.args[1])} :
          op' = [Return(r) EXCEPT !.tested = r.tested]
    /\ UNCHANGED <<root, codecVars, keyVars, bitVars>>

\* getNextPrime(2^k + d) with args = <<k, d>>
CallGetNextPrimeOfPower ==
    /\ op.name = "getNextPrimeOfPower" /\ ~op.done
    /\ \E r \in {getNextPrimeOfPower(op.args[1], op.args[2])} :
          op' = [Return(r) EXCEPT !.tested = r.tested]
    /\ UNCHANGED <<root, codecVars, keyVars, bitVars>>

\* val is the returned Boolean together with the squarings of the run
CallIsStrongPseudoprime ==
    /\ op.name = "isStrongPseudoprime" /\ ~op.done
    /\ op' = Return(Ok(isStrongPseudoprimeRun(op.args[1], op.args[2])))
    /\ UNCHANGED <<root, codecVars, keyVars, bitVars>>

CallIsSmallStrongPseudoprime ==
    /\ op.name = "isSmallStrongPseudoprime" /\ ~op.done
    /\ op' = Return(Ok(isSmallStrongPseudoprime(op.args[1])))
    /\ UNCHANGED <<root, codecVars, keyVars, bitVars>>

CallModInv ==
    /\ op.name = "modInv" /\ ~op.done
    /\ op' = Return(modInv(op.args[1], op.args[2]))
    /\ UNCHANGED <<root, codecVars, keyVars, bitVars>>

CallPow ==
    /\ op.name = "pow" /\ ~op.done
    /\ op' = Return(pow(op.args[1], op.args[2], op.args[3]))
    /\ UNCHANGED <<root, codecVars, keyVars, bitVars>>

----------------------------------------------------------------------------
(* src/ObfuskeyAlphabet.ts *)

Symbols == {"a", "b", "c", "d"}

SeqsUpTo(S, n) == UNION {[1..k -> S] : k \in 0..n}

Range(s) == {s[i] : i \in 1..Len(s)}

\* new ObfuskeyAlphabet(s)
ObfuskeyAlphabet(s) ==
    IF Cardinality(Range(s)) # Len(s) THEN Err("DuplicateError") ELSE [err |-> "", val |-> s]

\* The alphabets the calls are made with: every one of them is accepted by the
\* constructor (the empty string and a single symbol included).
Alphabets ==
    {s \in { <<>>, <<"a">>, <<"b", "a">>, <<"a", "b", "c">>, <<"c", "a", "b">>,
             <<"d", "c", "b", "a">> } : ObfuskeyAlphabet(s).err = ""}

Base(alph) == Len(alph)

indexOf(alph, char) ==
    IF \E i \in 1..Len(alph) : alph[i] = char
    THEN Ok((CHOOSE i \in 1..Len(alph) : alph[i] = char) - 1)
    ELSE Err("UnknownKeyError")

charAt(alph, index) ==
    IF index < 0 \/ index >= Base(alph) THEN [err |-> "RangeError", val |-> ""]
    ELSE [err |-> "", val |-> alph[index + 1]]

getMaxValue(alph, kl) ==
    IF kl < 0 THEN Err("NegativeValueError") ELSE Ok(IntPow(Base(alph), kl) - 1)

----------------------------------------------------------------------------
(* src/utils/encode.ts, src/utils/decode.ts *)

Reverse(s) == [i \in 1..Len(s) |-> s[Len(s) + 1 - i]]

EncIdle == [pc |-> "idle", alphabet |-> <<>>, input |-> 0, value |-> 0,
            key |-> <<>>, err |-> "", result |-> <<>>]

\* encode(value, alphabet) up to its while loop
encodeEnter(value, alph) ==
    LET e == [EncIdle EXCEPT !.alphabet = alph, !.input = value, !.value = value]
    IN  IF value < 0 THEN [e EXCEPT !.pc = "done", !.err = "Error"]
        ELSE IF value < Base(alph)
        THEN [e EXCEPT !.pc = "done", !.result = <<charAt(alph, value).val>>]
        ELSE [e EXCEPT !.pc = "loop"]

\* the digits are returned in the order they were pushed
encodeNext_NoReverse(e) ==
    IF e.value > 0
    THEN LET dm == divmod(e.value, Base(e.alphabet))
         IN  IF dm.err # "" THEN [e EXCEPT !.pc = "done", !.err = dm.err]
             ELSE [e EXCEPT !.value = dm.val[1],
                            !.key = Append(e.key, charAt(e.alphabet, dm.val[2]).val)]
    ELSE [e EXCEPT !.pc = "done", !.result = e.key]

\* one test of the while condition: an iteration of the body, or the return
encodeNext(e) ==
    IF e.value > 0
    THEN LET dm == divmod(e.value, Base(e.alphabet))
         IN  IF dm.err # "" THEN [e EXCEPT !.pc = "done", !.err = dm.err]
             ELSE [e EXCEPT !.value = dm.val[1],
                            !.key = Append(e.key, charAt(e.alphabet, dm.val[2]).val)]
    ELSE [e EXCEPT !.pc = "done", !.result = Reverse(e.key)]

RECURSIVE encodeRun(_)
encodeRun(e) == IF e.pc = "done" THEN e ELSE encodeRun(encodeNext(e))

\* encode as one call (it returns or throws whenever Base(alph) # 1 or value < 1)
encode(value, alph) ==
    LET e == encodeRun(encodeEnter(value, alph))
    IN  [err |-> e.err, val |-> e.result]

RECURSIVE decodeReduce(_, _, _, _)
decodeReduce(reversedChars, i, acc, alph) ==
    IF i > Len(reversedChars) THEN Ok(acc)
    ELSE LET d == indexOf(alph, reversedChars[i])
         IN  IF d.err # "" THEN Err(d.err)
             ELSE decodeReduce(reversedChars, i + 1,
                               acc + d.val * IntPow(Base(alph), i - 1), alph)

decode(value, alph) ==
    IF Len(value) = 1 THEN indexOf(alph, value[1])
    ELSE decodeReduce(Reverse(value), 1, 0, alph)

DecIdle == [called |-> FALSE, alphabet |-> <<>>, value |-> <<>>, err |-> "", val |-> 0]

DecCall(value, alph) ==
    LET r == decode(value, alph)
    IN  [called |-> TRUE, alphabet |-> alph, value |-> value, err |-> r.err, val |-> r.val]

\* encode is called with a value of the caller's
EncodeCall(value, alph) ==
    /\ enc.pc # "loop"
    /\ enc' = encodeEnter(value, alph)
    /\ dec' = DecIdle
    /\ UNCHANGED <<mathVars, keyVars, bitVars>>

\* encode is called with what decode returned, in the same alphabet
EncodeDecoded ==
    /\ enc.pc # "loop"
    /\ dec.called /\ dec.err = ""
    /\ enc' = encodeEnter(dec.val, dec.alphabet)
    /\ UNCHANGED <<dec, mathVars, keyVars, bitVars>>

EncodeStep ==
    /\ enc.pc = "loop"
    /\ Len(enc.key) < MaxEncodeSteps
    /\ enc' = encodeNext(enc)
    /\ UNCHANGED <<dec, mathVars, keyVars, bitVars>>

\* decode is called with a string of the caller's
DecodeCall(value, alph) ==
    /\ enc.pc # "loop"
    /\ dec' = DecCall(value, alph)
    /\ enc' = EncIdle
    /\ UNCHANGED <<mathVars, keyVars, bitVars>>

\* decode is called with what encode returned, in the same alphabet
DecodeEncoded ==
    /\ enc.pc = "done" /\ enc.err = ""
    /\ dec' = DecCall(enc.result, enc.alphabet)
    /\ UNCHANGED <<enc, mathVars, keyVars, bitVars>>

----------------------------------------------------------------------------
(* src/constants.ts, src/utils/toFixedPointBigInt.ts, src/utils/generateNextPrime.ts *)

\* toFixedPointBigInt(PRIME_MULTIPLIER, FIXED_POINT_SCALE): the double
\* 1.618033988749894848 * 1e18 rounds to 1618033988749894912.  It is kept as its
\* base-1000 digits, least significant first.
scaledMultiplier == <<912, 894, 749, 988, 33, 618, 1>>

\* (n * scaledMultiplier) / 1000^k for n >= 0, by long multiplication over the
\* digits from position i on, with the carry of the lower digits
RECURSIVE MulDivDigits(_, _, _, _)
MulDivDigits(n, i, k, carry) ==
    IF i > Len(scaledMultiplier) THEN carry
    ELSE IF i <= k
    THEN MulDivDigits(n, i + 1, k, (n * scaledMultiplier[i] + carry) \div 1000)
    ELSE n * IntPow(1000, i - k - 1) * scaledMultiplier[i]
         + MulDivDigits(n, i + 1, k, 0) + carry

\* scaledTargetValue / FIXED_POINT_SCALE, FIXED_POINT_SCALE = 10^18 = 1000^6
\* (BigInt division truncates toward zero)
targetValue(max) ==
    IF max >= 0 THEN MulDivDigits(max, 1, 6, 0) ELSE -MulDivDigits(-max, 1, 6, 0)

generateNextPrime(alph, kl) == getNextPrime(targetValue(getMaxValue(alph, kl).val))

----------------------------------------------------------------------------
(* src/Obfuskey.ts *)

\* s.padStart(n, fill) with a one-character fill
padStart(s, n, fill) ==
    IF Len(s) >= n THEN s ELSE [i \in 1..(n - Len(s)) |-> fill] \o s

\* An Obfuskey object: its four private fields
Obj(alph, kl, max, mult) ==
    [alphabet |-> alph, keyLength |-> kl, maximumValue |-> max, multiplier |-> mult]

\* new Obfuskey(alph, kl, mult): mult is <<>> when left out.  val is the object.
constructor(alph, kl, mult) ==
    IF mult # <<>> /\ mult[1] % 2 = 0
    THEN [err |-> "MultiplierError", val |-> Obj(<<>>, 0, 0, <<>>)]
    ELSE LET max == getMaxValue(alph, kl)
         IN  IF max.err # "" THEN [err |-> max.err, val |-> Obj(<<>>, 0, 0, <<>>)]
             ELSE [err |-> "", val |-> Obj(alph, kl, max.val, mult)]

\* get multiplier(): the value read (or the error) and the cache afterwards
multiplierGetter(o) ==
    IF o.multiplier = <<>>
    THEN Bind(generateNextPrime(o.alphabet, o.keyLength), LAMBDA g :
             IF g.err # "" THEN [err |-> g.err, val |-> 0, cache |-> <<>>]
             ELSE [err |-> "", val |-> g.val, cache |-> <<g.val>>])
    ELSE [err |-> "", val |-> o.multiplier[1], cache |-> o.multiplier]

\* get emptyKey()
emptyKey(o) ==
    LET zero == charAt(o.alphabet, 0)
    IN  IF zero.err # "" THEN [err |-> zero.err, val |-> <<>>]
        ELSE [err |-> "", val |-> padStart(<<>>, o.keyLength, zero.val)]

\* getKey(value): the key (or the error) and the multiplier cache afterwards
getKey(o, value) ==
    IF value < 0 THEN [err |-> "NegativeValueError", val |-> <<>>, cache |-> o.multiplier]
    ELSE IF value > o.maximumValue
    THEN [err |-> "MaximumValueError", val |-> <<>>, cache |-> o.multiplier]
    ELSE IF value = 0
    THEN Bind(emptyKey(o), LAMBDA e :
             [err |-> e.err, val |-> e.val, cache |-> o.multiplier])
    ELSE Bind(multiplierGetter(o), LAMBDA m :
             IF m.err # "" THEN [err |-> m.err, val |-> <<>>, cache |-> m.cache]
             ELSE Bind(encode(JsRem(value * m.val, o.maximumValue + 1), o.alphabet),
                       LAMBDA encodedValue :
                  IF encodedValue.err # ""
                  THEN [err |-> encodedValue.err, val |-> <<>>, cache |-> m.cache]
                  ELSE [err |-> "",
                        val |-> padStart(encodedValue.val, o.keyLength,
                                         charAt(o.alphabet, 0).val),
                        cache |-> m.cache]))

\* getValue multiplying by the multiplier again, not by its modular inverse
getValue_NoInverse(o, key) ==
    IF Len(key) # o.keyLength
    THEN [err |-> "KeyLengthError", val |-> 0, cache |-> o.multiplier]
    ELSE Bind(emptyKey(o), LAMBDA e :
         IF e.err # "" THEN [err |-> e.err, val |-> 0, cache |-> o.multiplier]
         ELSE IF key = e.val THEN [err |-> "", val |-> 0, cache |-> o.multiplier]
         ELSE Bind(decode(key, o.alphabet), LAMBDA decodedBigIntValue :
              IF decodedBigIntValue.err # ""
              THEN [err |-> decodedBigIntValue.err, val |-> 0, cache |-> o.multiplier]
              ELSE Bind(multiplierGetter(o), LAMBDA m :
                   IF m.err # "" THEN [err |-> m.err, val |-> 0, cache |-> m.cache]
                   ELSE [err |-> "",
                         val |-> JsRem(decodedBigIntValue.val * m.val,
                                       o.maximumValue + 1),
                         cache |-> m.cache])))

\* getValue(key): the value (or the error) and the multiplier cache afterwards
getValue(o, key) ==
    IF Len(key) # o.keyLength
    THEN [err |-> "KeyLengthError", val |-> 0, cache |-> o.multiplier]
    ELSE Bind(emptyKey(o), LAMBDA e :
         IF e.err # "" THEN [err |-> e.err, val |-> 0, cache |-> o.multiplier]
         ELSE IF key = e.val THEN [err |-> "", val |-> 0, cache |-> o.multiplier]
         ELSE Bind(decode(key, o.alphabet), LAMBDA decodedBigIntValue :
              IF decodedBigIntValue.err # ""
              THEN [err |-> decodedBigIntValue.err, val |-> 0, cache |-> o.multiplier]
              ELSE Bind(multiplierGetter(o), LAMBDA m :
                   IF m.err # "" THEN [err |-> m.err, val |-> 0, cache |-> m.cache]
                   ELSE Bind(modInv(m.val, o.maximumValue + 1), LAMBDA inv :
                        IF inv.err # ""
                        THEN [err |-> inv.err, val |-> 0, cache |-> m.cache]
                        ELSE [err |-> "",
                              val |-> JsRem(decodedBigIntValue.val * inv.val,
                                            o.maximumValue + 1),
                              cache |-> m.cache]))))

\* the prime generated next depends on the multiplier another reader has set
generatePrimeMultiplier_AfterCached(o) ==
    IF o.multiplier = <<>> THEN generateNextPrime(o.alphabet, o.keyLength)
    ELSE getNextPrime(o.multiplier[1])

\* generatePrimeMultiplier(this.__primeFactor)
generatePrimeMultiplier(o) == generateNextPrime(o.alphabet, o.keyLength)

\* The Obfuskey the state holds
self == Obj(alphabet, keyLength, maximumValue, multiplier)

KeyCall(name, value, key, err, val) ==
    [name |-> name, value |-> value, key |-> key, err |-> err, val |-> val]

NoKey == [set |-> FALSE, value |-> 0, key |-> <<>>]

\* The positions of a read of obfuskey.multiplier: before the getter ("idle"),
\* after the test of line 128 found the field undefined ("generate") or set
\* ("return"), and after the return ("done", with the value returned or the
\* error thrown)
Readers == 1..MaxReaders
NoReads == [r \in Readers |-> [pc |-> "idle", err |-> "", val |-> 0]]

Multipliers == {<<>>} \cup {<<m>> : m \in -MaxNegMultiplier..MaxMultiplier}

\* No Obfuskey is built yet: nothing was called, or the constructor threw
KeyUnbuilt == kop.name = "" \/ (kop.name = "constructor" /\ kop.err # "")

\* The keys getValue is called with: the strings over the alphabet of at most
\* keyLength characters, the last key handed out, a key with a foreign character
\* and a key that is one character too long
KeyStrings ==
    SeqsUpTo(Range(alphabet), keyLength)
    \cup {lastKey.key, padStart(<<"z">>, keyLength, "z"), padStart(<<>>, keyLength + 1, "a")}

\* new Obfuskey(alph, kl, mult): the model follows the one object that is built
NewObfuskey(alph, kl, mult) ==
    \E c \in {constructor(alph, kl, mult)} :
        /\ KeyUnbuilt
        /\ kop' = KeyCall("constructor", 0, <<>>, c.err, 0)
        /\ IF c.err = ""
           THEN /\ alphabet' = c.val.alphabet
                /\ keyLength' = c.val.keyLength
                /\ maximumValue' = c.val.maximumValue
                /\ multiplier' = c.val.multiplier
           ELSE UNCHANGED <<alphabet, keyLength, maximumValue, multiplier>>
        /\ lastKey' = NoKey
        /\ reads' = NoReads
        /\ UNCHANGED <<mathVars, codecVars, bitVars>>

\* obfuskey.multiplier
ReadMultiplier ==
    /\ ~KeyUnbuilt
    /\ \E m \in {multiplierGetter(self)} :
        /\ kop' = KeyCall("multiplier", 0, <<>>, m.err, m.val)
        /\ multiplier' = m.cache
    /\ UNCHANGED <<alphabet, keyLength, maximumValue, lastKey, reads>>
    /\ UNCHANGED <<mathVars, codecVars, bitVars>>

\* the getter, line 128: if (this.__multiplier === undefined)
ReadTest(r) ==
    /\ ~KeyUnbuilt
    /\ reads[r].pc \in {"idle", "done"}
    /\ reads' = [reads EXCEPT ![r] = [pc |-> IF multiplier = <<>> THEN "generate"
                                             ELSE "return",
                                      err |-> "", val |-> 0]]
    /\ UNCHANGED <<alphabet, keyLength, maximumValue, multiplier, kop, lastKey>>
    /\ UNCHANGED <<mathVars, codecVars, bitVars>>

\* the getter, line 129: this.__multiplier = this.generatePrimeMultiplier(...)
ReadGenerate(r) ==
    /\ reads[r].pc = "generate"
    /\ \E g \in {generatePrimeMultiplier(self)} :
          IF g.err # ""
          THEN /\ reads' = [reads EXCEPT ![r] = [pc |-> "done", err |-> g.err, val |-> 0]]
               /\ UNCHANGED multiplier
          ELSE /\ reads' = [reads EXCEPT ![r].pc = "return"]
               /\ multiplier' = <<g.val>>
    /\ UNCHANGED <<alphabet, keyLength, maximumValue, kop, lastKey>>
    /\ UNCHANGED <<mathVars, codecVars, bitVars>>

\* the getter, line 131: return this.__multiplier
ReadReturn(r) ==
    /\ reads[r].pc = "return"
    /\ reads' = [reads EXCEPT ![r] = [pc |-> "done", err |-> "", val |-> multiplier[1]]]
    /\ UNCHANGED <<alphabet, keyLength, maximumValue, multiplier, kop, lastKey>>
    /\ UNCHANGED <<mathVars, codecVars, bitVars>>

\* obfuskey.getKey(value)
GetKey(value) ==
    /\ ~KeyUnbuilt
    /\ \E k \in {getKey(self, value)} :
        /\ kop' = KeyCall("getKey", value, k.val, k.err, 0)
        /\ multiplier' = k.cache
        /\ lastKey' = IF k.err = "" THEN [set |-> TRUE, value |-> value, key |-> k.val]
                      ELSE NoKey
    /\ UNCHANGED <<alphabet, keyLength, maximumValue, reads>>
    /\ UNCHANGED <<mathVars, codecVars, bitVars>>

\* obfuskey.getValue(key); lastKey is kept while key is the key it holds
GetValue(key) ==
    /\ ~KeyUnbuilt
    /\ \E v \in {getValue(self, key)} :
        /\ kop' = KeyCall("getValue", 0, key, v.err, v.val)
        /\ multiplier' = v.cache
    /\ lastKey' = IF lastKey.set /\ lastKey.key = key THEN lastKey ELSE NoKey
    /\ UNCHANGED <<alphabet, keyLength, maximumValue, reads>>
    /\ UNCHANGED <<mathVars, codecVars, bitVars>>

----------------------------------------------------------------------------
(* src/Obfuskey.ts over two symbols with a keyLength next to the bit limit *)

\* maximumValue = 2^kl - 1 lies beyond the integers of the model and is kept as
\* its exponent; the values, multipliers and products the model hands to such an
\* object stay below 2^30.  An operator has no arm for an outcome that depends
\* on a number the model cannot compute.
getMaxValueOfPower(alph, kl) ==
    IF kl < 0 THEN Err("NegativeValueError") ELSE Ok([power |-> kl])

\* value > max
ExceedsOfPower(value, max) ==
    IF max.power <= 30 THEN value > Pow2(max.power) - 1 ELSE FALSE

\* x % (max + 1n)
RemOfPower(x, max) ==
    IF max.power <= 30 THEN JsRem(x, Pow2(max.power)) ELSE x

\* generateNextPrime(alphabet, keyLength): 10^18 < scaledMultiplier < 2 * 10^18,
\* so that targetValue(2^kl - 1) lies in [2^kl, 2^(kl+1)) and getNextPrime sees
\* the bit length of 2^kl
generateNextPrimeOfPower(alph, kl) == getNextPrimeOfPower(kl, 0)

constructorOfPower(alph, kl, mult) ==
    IF mult # <<>> /\ mult[1] % 2 = 0
    THEN [err |-> "MultiplierError", val |-> Obj(<<>>, 0, 0, <<>>)]
    ELSE LET max == getMaxValueOfPower(alph, kl)
         IN  IF max.err # "" THEN [err |-> max.err, val |-> Obj(<<>>, 0, 0, <<>>)]
             ELSE [err |-> "", val |-> Obj(alph, kl, max.val, mult)]

\* the getter that stores a multiplier although the generation threw
multiplierGetterOfPower_CacheOnFailure(o) ==
    IF o.multiplier = <<>>
    THEN Bind(generateNextPrimeOfPower(o.alphabet, o.keyLength), LAMBDA g :
             CASE g.err # "" -> [err |-> g.err, val |-> 0, cache |-> <<1>>])
    ELSE [err |-> "", val |-> o.multiplier[1], cache |-> o.multiplier]

\* get multiplier(): the prime of a generation that succeeds is not computed
multiplierGetterOfPower(o) ==
    IF o.multiplier = <<>>
    THEN Bind(generateNextPrimeOfPower(o.alphabet, o.keyLength), LAMBDA g :
             CASE g.err # "" -> [err |-> g.err, val |-> 0, cache |-> <<>>])
    ELSE [err |-> "", val |-> o.multiplier[1], cache |-> o.multiplier]

getKeyOfPower(o, value) ==
    IF value < 0 THEN [err |-> "NegativeValueError", val |-> <<>>, cache |-> o.multiplier]
    ELSE IF ExceedsOfPower(value, o.maximumValue)
    THEN [err |-> "MaximumValueError", val |-> <<>>, cache |-> o.multiplier]
    ELSE IF value = 0
    THEN Bind(emptyKey(o), LAMBDA e :
             [err |-> e.err, val |-> e.val, cache |-> o.multiplier])
    ELSE Bind(multiplierGetterOfPower(o), LAMBDA m :
             IF m.err # "" THEN [err |-> m.err, val |-> <<>>, cache |-> m.cache]
             ELSE Bind(encode(RemOfPower(value * m.val, o.maximumValue), o.alphabet),
                       LAMBDA encodedValue :
                  IF encodedValue.err # ""
                  THEN [err |-> encodedValue.err, val |-> <<>>, cache |-> m.cache]
                  ELSE [err |-> "",
                        val |-> padStart(encodedValue.val, o.keyLength,
                                         charAt(o.alphabet, 0).val),
                        cache |-> m.cache]))

\* decode of a long key: the characters that are the zero symbol add nothing,
\* the others are summed position by position
RECURSIVE decodeSumOfPower(_, _, _)
decodeSumOfPower(reversedChars, positions, alph) ==
    IF positions = {} THEN 0
    ELSE LET i == CHOOSE p \in positions : TRUE
         IN  indexOf(alph, reversedChars[i]).val * IntPow(Base(alph), i - 1)
             + decodeSumOfPower(reversedChars, positions \ {i}, alph)

decodeOfPower(value, alph) ==
    IF Len(value) = 1 THEN indexOf(alph, value[1])
    ELSE LET reversedChars == Reverse(value)
         IN  IF \E i \in 1..Len(value) : indexOf(alph, reversedChars[i]).err # ""
             THEN Err("UnknownKeyError")
             ELSE Ok(decodeSumOfPower(reversedChars,
                         {i \in 1..Len(value) : indexOf(alph, reversedChars[i]).val # 0},
                         alph))

\* getValue(key): the product with the inverse of the multiplier modulo 2^kl
\* is not computed
getValueOfPower(o, key) ==
    IF Len(key) # o.keyLength
    THEN [err |-> "KeyLengthError", val |-> 0, cache |-> o.multiplier]
    ELSE Bind(emptyKey(o), LAMBDA e :
         IF e.err # "" THEN [err |-> e.err, val |-> 0, cache |-> o.multiplier]
         ELSE IF key = e.val THEN [err |-> "", val |-> 0, cache |-> o.multiplier]
         ELSE Bind(decodeOfPower(key, o.alphabet), LAMBDA decodedBigIntValue :
              IF decodedBigIntValue.err # ""
              THEN [err |-> decodedBigIntValue.err, val |-> 0, cache |-> o.multiplier]
              ELSE Bind(multiplierGetterOfPower(o), LAMBDA m :
                   CASE m.err # "" -> [err |-> m.err, val |-> 0, cache |-> m.cache])))

\* The key lengths around the bit limit, and what such an object is called with
PowerLengths == (MaxBitLength - PowerMargin)..(MaxBitLength + PowerMargin)
PowerMultipliers == { <<>>, <<3>> }
PowerKeys ==
    {padStart(<<>>, keyLength, "b"), padStart(<<"a">>, keyLength, "b"),
     padStart(<<"z">>, keyLength, "b"), padStart(<<>>, keyLength - 1, "b")}

\* a multiplier was supplied, or its generation throws: the calls the model follows
MultiplierFollowed ==
    multiplier # <<>> \/ generateNextPrimeOfPower(alphabet, keyLength).err # ""

NewObfuskeyOfPower(kl, mult) ==
    \E c \in {constructorOfPower(<<"b", "a">>, kl, mult)} :
        /\ KeyUnbuilt
        /\ kop' = KeyCall("constructor", 0, <<>>, c.err, 0)
        /\ IF c.err = ""
           THEN /\ alphabet' = c.val.alphabet
                /\ keyLength' = c.val.keyLength
                /\ maximumValue' = c.val.maximumValue
                /\ multiplier' = c.val.multiplier
           ELSE UNCHANGED <<alphabet, keyLength, maximumValue, multiplier>>
        /\ lastKey' = NoKey
        /\ reads' = NoReads
        /\ UNCHANGED <<mathVars, codecVars, bitVars>>

ReadMultiplierOfPower ==
    /\ ~KeyUnbuilt /\ MultiplierFollowed
    /\ \E m \in {multiplierGetterOfPower(self)} :
        /\ kop' = KeyCall("multiplier", 0, <<>>, m.err, m.val)
        /\ multiplier' = m.cache
    /\ UNCHANGED <<alphabet, keyLength, maximumValue, lastKey, reads>>
    /\ UNCHANGED <<mathVars, codecVars, bitVars>>

GetKeyOfPower(value) ==
    /\ ~KeyUnbuilt /\ (value <= 0 \/ MultiplierFollowed)
    /\ \E k \in {getKeyOfPower(self, value)} :
        /\ kop' = KeyCall("getKey", value, k.val, k.err, 0)
        /\ multiplier' = k.cache
        /\ lastKey' = IF k.err = "" THEN [set |-> TRUE, value |-> value, key |-> k.val]
                      ELSE NoKey
    /\ UNCHANGED <<alphabet, keyLength, maximumValue, reads>>
    /\ UNCHANGED <<mathVars, codecVars, bitVars>>

\* getValue of a key that needs the multiplier is followed when the generation
\* throws
GetValueOfPower(key) ==
    /\ ~KeyUnbuilt
    /\ \/ Len(key) # keyLength
       \/ key = emptyKey(self).val
       \/ decodeOfPower(key, alphabet).err # ""
       \/ multiplier = <<>> /\ MultiplierFollowed
    /\ \E v \in {getValueOfPower(self, key)} :
        /\ kop' = KeyCall("getValue", 0, key, v.err, v.val)
        /\ multiplier' = v.cache
    /\ lastKey' = IF lastKey.set /\ lastKey.key = key THEN lastKey ELSE NoKey
    /\ UNCHANGED <<alphabet, keyLength, maximumValue, reads>>
    /\ UNCHANGED <<mathVars, codecVars, bitVars>>

----------------------------------------------------------------------------
(* BigInt bit operators on non-negative operands *)

RECURSIVE BitOr(_, _)
BitOr(x, y) ==
    IF x = 0 THEN y
    ELSE IF y = 0 THEN x
    ELSE (IF x % 2 = 1 \/ y % 2 = 1 THEN 1 ELSE 0) + 2 * BitOr(x \div 2, y \div 2)

RECURSIVE BitAnd(_, _)
BitAnd(x, y) ==
    IF x = 0 \/ y = 0 THEN 0
    ELSE (IF x % 2 = 1 /\ y % 2 = 1 THEN 1 ELSE 0) + 2 * BitAnd(x \div 2, y \div 2)

ShiftLeft(x, k) == x * Pow2(k)
ShiftRight(x, k) == x \div Pow2(k)

----------------------------------------------------------------------------
(* src/ObfusbitSchema.ts *)

Field(name, bits) == [name |-> name, bits |-> bits]

NoFields == [n \in {} |-> 0]

\* An item whose name is no string or whose bits is no BigInt carries the
\* typeof of that property; Field(name, bits) is an item of a string and a BigInt
UntypedField(name, bits, nameType, bitsType) ==
    [name |-> name, bits |-> bits, nameType |-> nameType, bitsType |-> bitsType]

typeofName(field) == IF "nameType" \in DOMAIN field THEN field.nameType ELSE "string"
typeofBits(field) == IF "bitsType" \in DOMAIN field THEN field.bitsType ELSE "bigint"

\* validateSchemaItem(field, index, seenFields)
validateSchemaItem(field, seenFields) ==
    IF typeofName(field) # "string" THEN "SchemaValidationError"
    ELSE IF typeofBits(field) # "bigint" THEN "SchemaValidationError"
    ELSE IF field.bits <= 0 THEN "SchemaValidationError"
    ELSE IF field.name \in seenFields THEN "SchemaValidationError"
    ELSE ""

\* validateSchema(schema): "" or the error of the first item that fails
RECURSIVE validateSchemaFrom(_, _, _)
validateSchemaFrom(schema, i, seenFields) ==
    IF i > Len(schema) THEN ""
    ELSE LET e == validateSchemaItem(schema[i], seenFields)
         IN  IF e # "" THEN e
             ELSE validateSchemaFrom(schema, i + 1, seenFields \cup {schema[i].name})

validateSchema(schema) == validateSchemaFrom(schema, 1, {})

\* schema.reduce((sum, field) => sum + field.bits, 0n)
RECURSIVE sumBits(_, _)
sumBits(schema, i) == IF i > Len(schema) THEN 0 ELSE schema[i].bits + sumBits(schema, i + 1)

\* calculateFieldInfo(schema): the loop over the reversed schema, from item i on
RECURSIVE calculateFieldInfoFrom(_, _, _, _)
calculateFieldInfoFrom(reversedSchema, i, currentShift, info) ==
    IF i > Len(reversedSchema) THEN info
    ELSE LET field == reversedSchema[i]
             entry == [bits |-> field.bits, shift |-> currentShift]
         IN  calculateFieldInfoFrom(
                 reversedSchema, i + 1, currentShift + field.bits,
                 [n \in DOMAIN info \cup {field.name} |->
                     IF n = field.name THEN entry ELSE info[n]])

\* the shifts counted from the first field of the schema on
calculateFieldInfo_Forward(schema) == calculateFieldInfoFrom(schema, 1, 0, NoFields)

calculateFieldInfo(schema) == calculateFieldInfoFrom(Reverse(schema), 1, 0, NoFields)

NoSchema == [definition |-> <<>>, totalBits |-> 0, maximumValue |-> 0,
             fieldInfo |-> NoFields, fieldNames |-> {}]

\* new ObfusbitSchema(schema)
ObfusbitSchema(schema) ==
    LET e == validateSchema(schema)
    IN  IF e # "" THEN [err |-> e, val |-> NoSchema]
        ELSE [err |-> "",
              val |-> [definition |-> schema,
                       totalBits |-> sumBits(schema, 1),
                       maximumValue |-> ShiftLeft(1, sumBits(schema, 1)) - 1,
                       fieldInfo |-> calculateFieldInfo(schema),
                       fieldNames |-> {schema[i].name : i \in 1..Len(schema)}]]

\* validateFields letting a value of exactly 2^bits through
validateFields_InclusiveLimit(sch, fields) ==
    IF sch.fieldNames \ DOMAIN fields # {} THEN "SchemaValidationError"
    ELSE IF DOMAIN fields \ sch.fieldNames # {} THEN "ValueError"
    ELSE IF \E name \in DOMAIN fields :
                \/ fields[name] < 0
                \/ fields[name] > ShiftLeft(1, sch.fieldInfo[name].bits)
    THEN "BitOverflowError"
    ELSE ""

\* validateFields looking for the unexpected fields before the missing ones
validateFields_ExtraFirst(sch, fields) ==
    IF DOMAIN fields \ sch.fieldNames # {} THEN "ValueError"
    ELSE IF sch.fieldNames \ DOMAIN fields # {} THEN "SchemaValidationError"
    ELSE IF \E name \in DOMAIN fields :
                \/ fields[name] < 0
                \/ fields[name] >= ShiftLeft(1, sch.fieldInfo[name].bits)
    THEN "BitOverflowError"
    ELSE ""

\* validateFields(fields): "" or the error thrown
validateFields(sch, fields) ==
    IF sch.fieldNames \ DOMAIN fields # {} THEN "SchemaValidationError"
    ELSE IF DOMAIN fields \ sch.fieldNames # {} THEN "ValueError"
    ELSE IF \E name \in DOMAIN fields :
                \/ fields[name] < 0
                \/ fields[name] >= ShiftLeft(1, sch.fieldInfo[name].bits)
    THEN "BitOverflowError"
    ELSE ""

\* The UTF-16 code unit of the one-character names of the model: the order of
\* Array.prototype.sort() without a compare function
charCodeAt == [c \in {"a", "b", "c", "d", "x", "z"} |->
                  CASE c = "a" -> 97 [] c = "b" -> 98 [] c = "c" -> 99
                    [] c = "d" -> 100 [] c = "x" -> 120 [] c = "z" -> 122]

\* the array of the items of a Set or of Object.keys, in the order it has them
RECURSIVE arrayOf(_)
arrayOf(S) == IF S = {} THEN <<>>
              ELSE LET first == CHOOSE n \in S : TRUE
                   IN  <<first>> \o arrayOf(S \ {first})

\* array.sort() of an array of names: item by item into the sorted array
RECURSIVE insertSorted(_, _)
insertSorted(sorted, name) ==
    IF sorted = <<>> THEN <<name>>
    ELSE IF charCodeAt[name] < charCodeAt[Head(sorted)] THEN <<name>> \o sorted
    ELSE <<Head(sorted)>> \o insertSorted(Tail(sorted), name)

RECURSIVE sort(_)
sort(array) == IF array = <<>> THEN <<>>
               ELSE insertSorted(sort(Tail(array)), Head(array))

\* the names the message of the error of validateFields lists:
\* missingFields.sort() or extraFields.sort()
validateFieldsListed(sch, fields) ==
    IF sch.fieldNames \ DOMAIN fields # {}
    THEN sort(arrayOf(sch.fieldNames \ DOMAIN fields))
    ELSE IF DOMAIN fields \ sch.fieldNames # {}
    THEN sort(arrayOf(DOMAIN fields \ sch.fieldNames))
    ELSE <<>>

----------------------------------------------------------------------------
(* src/Obfusbit.ts *)

\* the constructor refusing a schema that fills the Obfuskey exactly
ObfusbitConstructor_AtLeast(schema, key) ==
    Bind(ObfusbitSchema(schema), LAMBDA sch :
        IF sch.err # "" THEN sch
        ELSE IF key # <<>> /\ sch.val.maximumValue >= key[1].maximumValue
        THEN [err |-> "MaximumValueError", val |-> NoSchema]
        ELSE sch)

\* new Obfusbit(schema, obfuskey): key is <<>> or <<the Obfuskey>>
ObfusbitConstructor(schema, key) ==
    Bind(ObfusbitSchema(schema), LAMBDA sch :
        IF sch.err # "" THEN sch
        ELSE IF key # <<>> /\ sch.val.maximumValue > key[1].maximumValue
        THEN [err |-> "MaximumValueError", val |-> NoSchema]
        ELSE sch)

\* the loop of pack over the names in todo
RECURSIVE packLoop(_, _, _, _)
packLoop(sch, values, todo, packedInt) ==
    IF todo = {} THEN packedInt
    ELSE LET fieldName == CHOOSE n \in todo : TRUE
         IN  packLoop(sch, values, todo \ {fieldName},
                      BitOr(packedInt,
                            ShiftLeft(values[fieldName], sch.fieldInfo[fieldName].shift)))

\* pack(values, obfuscate): key is <<>> or <<the Obfuskey>>
pack(sch, key, values, obfuscate) ==
    LET none == IF key = <<>> THEN <<>> ELSE key[1].multiplier
    IN  Bind(validateFields(sch, values), LAMBDA e :
        IF e # "" THEN [err |-> e, int |-> 0, str |-> <<>>, cache |-> none]
        ELSE Bind(packLoop(sch, values, DOMAIN sch.fieldInfo, 0), LAMBDA packedInt :
             IF ~obfuscate
             THEN [err |-> "", int |-> packedInt, str |-> <<>>, cache |-> none]
             ELSE IF key = <<>>
             THEN [err |-> "ValueError", int |-> 0, str |-> <<>>, cache |-> none]
             ELSE Bind(getKey(key[1], packedInt), LAMBDA k :
                  [err |-> k.err, int |-> 0, str |-> k.val, cache |-> k.cache])))

\* getFieldInfo(name)
getFieldInfo(sch, name) ==
    IF name \notin sch.fieldNames
    THEN [err |-> "ValueError", val |-> [bits |-> 0, shift |-> 0]]
    ELSE [err |-> "", val |-> sch.fieldInfo[name]]

\* the loop of unpack masking the packed integer without shifting it first
RECURSIVE unpackLoop_NoShift(_, _, _, _)
unpackLoop_NoShift(sch, packedInt, i, unpackedValues) ==
    IF i > Len(sch.definition) THEN [err |-> "", val |-> unpackedValues]
    ELSE LET name == sch.definition[i].name
             info == getFieldInfo(sch, name)
             mask == ShiftLeft(1, info.val.bits) - 1
             value == BitAnd(packedInt, mask)
         IN  IF info.err # "" THEN [err |-> info.err, val |-> NoFields]
             ELSE unpackLoop_NoShift(sch, packedInt, i + 1,
                                     [n \in DOMAIN unpackedValues \cup {name} |->
                                         IF n = name THEN value ELSE unpackedValues[n]])

\* the loop of unpack over the definition array the schema holds, from item i on
RECURSIVE unpackLoop(_, _, _, _)
unpackLoop(sch, packedInt, i, unpackedValues) ==
    IF i > Len(sch.definition) THEN [err |-> "", val |-> unpackedValues]
    ELSE LET name == sch.definition[i].name
             info == getFieldInfo(sch, name)
             mask == ShiftLeft(1, info.val.bits) - 1
             value == BitAnd(ShiftRight(packedInt, info.val.shift), mask)
         IN  IF info.err # "" THEN [err |-> info.err, val |-> NoFields]
             ELSE unpackLoop(sch, packedInt, i + 1,
                             [n \in DOMAIN unpackedValues \cup {name} |->
                                 IF n = name THEN value ELSE unpackedValues[n]])

BigIntData(i) == [type |-> "bigint", int |-> i, str |-> <<>>]
StringData(s) == [type |-> "string", int |-> 0, str |-> s]

\* unpack that refuses a BigInt outside [0, maximumValue]
unpack_RangeChecked(sch, key, packedData, obfuscated) ==
    LET none == IF key = <<>> THEN <<>> ELSE key[1].multiplier
    IN  IF obfuscated
        THEN IF key = <<>> THEN [err |-> "ValueError", val |-> NoFields, cache |-> none]
             ELSE IF packedData.type # "string"
             THEN [err |-> "TypeError", val |-> NoFields, cache |-> none]
             ELSE Bind(getValue(key[1], packedData.str), LAMBDA v :
                  IF v.err # "" THEN [err |-> v.err, val |-> NoFields, cache |-> v.cache]
                  ELSE Bind(unpackLoop(sch, v.val, 1, NoFields), LAMBDA u :
                           [err |-> u.err, val |-> u.val, cache |-> v.cache]))
        ELSE IF packedData.type # "bigint"
             THEN [err |-> "TypeError", val |-> NoFields, cache |-> none]
             ELSE IF packedData.int < 0 \/ packedData.int > sch.maximumValue
             THEN [err |-> "ValueError", val |-> NoFields, cache |-> none]
             ELSE Bind(unpackLoop(sch, packedData.int, 1, NoFields), LAMBDA u :
                      [err |-> u.err, val |-> u.val, cache |-> none])

\* unpack checking the type of packedData before it looks for the Obfuskey
unpack_TypeFirst(sch, key, packedData, obfuscated) ==
    LET none == IF key = <<>> THEN <<>> ELSE key[1].multiplier
    IN  IF packedData.type # (IF obfuscated THEN "string" ELSE "bigint")
        THEN [err |-> "TypeError", val |-> NoFields, cache |-> none]
        ELSE IF ~obfuscated
        THEN Bind(unpackLoop(sch, packedData.int, 1, NoFields), LAMBDA u :
                 [err |-> u.err, val |-> u.val, cache |-> none])
        ELSE IF key = <<>> THEN [err |-> "ValueError", val |-> NoFields, cache |-> none]
        ELSE Bind(getValue(key[1], packedData.str), LAMBDA v :
             IF v.err # "" THEN [err |-> v.err, val |-> NoFields, cache |-> v.cache]
             ELSE Bind(unpackLoop(sch, v.val, 1, NoFields), LAMBDA u :
                      [err |-> u.err, val |-> u.val, cache |-> v.cache]))

\* unpack(packedData, obfuscated)
unpack(sch, key, packedData, obfuscated) ==
    LET none == IF key = <<>> THEN <<>> ELSE key[1].multiplier
    IN  IF obfuscated
        THEN IF key = <<>> THEN [err |-> "ValueError", val |-> NoFields, cache |-> none]
             ELSE IF packedData.type # "string"
             THEN [err |-> "TypeError", val |-> NoFields, cache |-> none]
             ELSE Bind(getValue(key[1], packedData.str), LAMBDA v :
                  IF v.err # "" THEN [err |-> v.err, val |-> NoFields, cache |-> v.cache]
                  ELSE Bind(unpackLoop(sch, v.val, 1, NoFields), LAMBDA u :
                           [err |-> u.err, val |-> u.val, cache |-> v.cache]))
        ELSE IF packedData.type # "bigint"
             THEN [err |-> "TypeError", val |-> NoFields, cache |-> none]
             ELSE Bind(unpackLoop(sch, packedData.int, 1, NoFields), LAMBDA u :
                      [err |-> u.err, val |-> u.val, cache |-> none])

\* A Uint8Array is a sequence of numbers in 0 .. 255; a hex string is a sequence
\* of the characters below
HexDigits == <<"0", "1", "2", "3", "4", "5", "6", "7", "8", "9",
               "a", "b", "c", "d", "e", "f">>

\* getRequiredByteLength(): Math.ceil(Number(totalBits) / 8)
getRequiredByteLength(sch) == (sch.totalBits + 7) \div 8

\* the loop of intToBytesInternal from iteration i on
RECURSIVE intToBytesLoop(_, _, _, _, _)
intToBytesLoop(bytes, tempPackedInt, i, byteLength, byteorder) ==
    IF i >= byteLength THEN bytes
    ELSE intToBytesLoop(
             [bytes EXCEPT ![IF byteorder = "big" THEN byteLength - 1 - i + 1 ELSE i + 1]
                               = BitAnd(tempPackedInt, 255)],
             ShiftRight(tempPackedInt, 8), i + 1, byteLength, byteorder)

\* intToBytesInternal(packedInt, byteorder)
intToBytesInternal(sch, packedInt, byteorder) ==
    IF ~(packedInt >= 0 /\ packedInt <= sch.maximumValue)
    THEN [err |-> "ValueError", val |-> <<>>]
    ELSE [err |-> "",
          val |-> intToBytesLoop([k \in 1..getRequiredByteLength(sch) |-> 0], packedInt,
                                 0, getRequiredByteLength(sch), byteorder)]

\* byte.toString(16).padStart(2, '0')
toHex(byte) == <<HexDigits[(byte \div 16) + 1], HexDigits[(byte % 16) + 1]>>

\* the hex string bytesToIntInternal builds: most significant byte first
RECURSIVE hexOf(_)
hexOf(bigEndian) == IF bigEndian = <<>> THEN <<>>
                    ELSE toHex(Head(bigEndian)) \o hexOf(Tail(bigEndian))

\* the value of the hex digits read so far (acc) followed by those of hex
RECURSIVE hexValue(_, _)
hexValue(hex, acc) ==
    IF hex = <<>> THEN acc
    ELSE hexValue(Tail(hex),
                  16 * acc + (CHOOSE d \in 0..15 : HexDigits[d + 1] = Head(hex)))

\* BigInt('0x' + hex): '0x' without a digit is no BigInt literal
parseHexBigInt(hex) == IF hex = <<>> THEN Err("SyntaxError") ELSE Ok(hexValue(hex, 0))

\* bytesToIntInternal(byteData, byteorder)
bytesToIntInternal(sch, byteData, byteorder) ==
    IF Len(byteData) # getRequiredByteLength(sch) THEN Err("ValueError")
    ELSE parseHexBigInt(hexOf(IF byteorder = "big" THEN byteData ELSE Reverse(byteData)))

\* packBytes(values, byteorder)
packBytes(sch, values, byteorder) ==
    Bind(pack(sch, <<>>, values, FALSE), LAMBDA packed :
        IF packed.err # "" THEN [err |-> packed.err, val |-> <<>>]
        ELSE intToBytesInternal(sch, packed.int, byteorder))

\* unpackBytes(byteData, byteorder)
unpackBytes(sch, byteData, byteorder) ==
    Bind(bytesToIntInternal(sch, byteData, byteorder), LAMBDA packedInt :
        IF packedInt.err # "" THEN [err |-> packedInt.err, val |-> NoFields]
        ELSE Bind(unpack(sch, <<>>, BigIntData(packedInt.val), FALSE), LAMBDA u :
                 [err |-> u.err, val |-> u.val]))

\* The schema the state holds, and the Obfuskey the Obfusbit holds (if any)
theSchema == [definition |-> definition, totalBits |-> totalBits,
              maximumValue |-> schemaMaximumValue, fieldInfo |-> fieldInfo,
              fieldNames |-> fieldNames]

theKey == IF obfuskey THEN <<self>> ELSE <<>>

BitCall(name, schema, flag, values, data, err, int, str, map) ==
    [name |-> name, schema |-> schema, flag |-> flag, values |-> values,
     data |-> data, err |-> err, int |-> int, str |-> str, map |-> map]

NoPack == [set |-> FALSE, values |-> NoFields, data |-> BigIntData(0), flag |-> FALSE]

\* packed: bytes is what packBytes(values, byteorder) returned
NoBytes == [bytes |-> <<>>, byteorder |-> "big", packed |-> FALSE, values |-> NoFields]

\* new Obfusbit(schema, obfuskey) over an Obfuskey next to the bit limit
ObfusbitConstructorOfPower(schema, key) ==
    Bind(ObfusbitSchema(schema), LAMBDA sch :
        IF sch.err # "" THEN sch
        ELSE IF key # <<>> /\ ExceedsOfPower(sch.val.maximumValue, key[1].maximumValue)
        THEN [err |-> "MaximumValueError", val |-> NoSchema]
        ELSE sch)

\* pack that hands a packed integer of 0 to getKey whatever the values are
packOfPower_Zero(sch, key, values, obfuscate) ==
    LET none == IF key = <<>> THEN <<>> ELSE key[1].multiplier
    IN  Bind(validateFields(sch, values), LAMBDA e :
        IF e # "" THEN [err |-> e, int |-> 0, str |-> <<>>, cache |-> none]
        ELSE IF ~obfuscate
             THEN [err |-> "", int |-> 0, str |-> <<>>, cache |-> none]
             ELSE IF key = <<>>
             THEN [err |-> "ValueError", int |-> 0, str |-> <<>>, cache |-> none]
             ELSE Bind(getKeyOfPower(key[1], 0), LAMBDA k :
                  [err |-> k.err, int |-> 0, str |-> k.val, cache |-> k.cache]))

\* pack(values, obfuscate) over an Obfuskey next to the bit limit
packOfPower(sch, key, values, obfuscate) ==
    LET none == IF key = <<>> THEN <<>> ELSE key[1].multiplier
    IN  Bind(validateFields(sch, values), LAMBDA e :
        IF e # "" THEN [err |-> e, int |-> 0, str |-> <<>>, cache |-> none]
        ELSE Bind(packLoop(sch, values, DOMAIN sch.fieldInfo, 0), LAMBDA packedInt :
             IF ~obfuscate
             THEN [err |-> "", int |-> packedInt, str |-> <<>>, cache |-> none]
             ELSE IF key = <<>>
             THEN [err |-> "ValueError", int |-> 0, str |-> <<>>, cache |-> none]
             ELSE Bind(getKeyOfPower(key[1], packedInt), LAMBDA k :
                  [err |-> k.err, int |-> 0, str |-> k.val, cache |-> k.cache])))

\* The schema definitions the constructors are called with
Definitions ==
    { <<>>,
      <<Field("a", 1)>>,
      <<Field("a", 2)>>,
      <<Field("a", 1), Field("b", 2)>>,
      <<Field("b", 2), Field("a", 2)>>,
      <<Field("a", 3), Field("b", 1)>>,
      <<Field("a", 0)>>,
      <<Field("a", 1), Field("b", -1)>>,
      <<Field("a", 1), Field("a", 2)>> }

\* The field assignments pack and validateFields are called with
ValueSets ==
    UNION { [names -> -1..MaxFieldValue] : names \in SUBSET {"a", "b"} }
    \cup { [n \in names \cup {"x"} |-> 0] : names \in SUBSET {"a", "b"} }

\* The field assignments validateFields is called with when several faults
\* meet: missing and unexpected names with values that fit and that do not
FaultyValueSets ==
    UNION { [names -> -1..MaxFieldValue] : names \in SUBSET {"a", "b", "x"} }

\* The schema [id:10, type:2, flag:1] and assignments to it
IdTypeFlag == <<Field("id", 10), Field("type", 2), Field("flag", 1)>>
IdTypeFlagValues(id, type, flag) ==
    [n \in {"id", "type", "flag"} |->
        CASE n = "id" -> id [] n = "type" -> type [] n = "flag" -> flag]

PackDefinitions == Definitions \cup {IdTypeFlag}

PackValueSets ==
    ValueSets \cup {IdTypeFlagValues(100, 2, 1), IdTypeFlagValues(1023, 3, 1),
                    IdTypeFlagValues(0, 0, 0), IdTypeFlagValues(1024, 0, 0)}

\* The items and the arrays the schema constructor is called with: names that
\* are identifiers, the empty name and a name with a blank, a name that is a
\* number, and bits that is a number
SchemaItems ==
    {Field(n, b) : n \in {"a", "b", "", "a b"}, b \in -1..MaxSchemaBits}
    \cup {UntypedField("a", 1, "number", "bigint"), UntypedField("a", 1, "string", "number")}

SchemaArguments == SeqsUpTo(SchemaItems, MaxSchemaLen)

\* The Obfuskeys an Obfusbit is built over
BitAlphabets == { <<"b", "a">>, <<"a", "b", "c">>, <<"d", "c", "b", "a">> }
BitMultipliers == { <<>>, <<3>> }

\* No Obfusbit is built yet: nothing was called, or the constructor threw
BitUnbuilt == bop.name = "" \/ (bop.name = "constructor" /\ bop.err # "")

\* new Obfusbit(schema, obfuskey) with the Obfuskey that was built, or with none:
\* the model follows the one object that is built
NewObfusbit(schema, withKey) ==
    \E c \in {ObfusbitConstructor(schema, IF withKey THEN <<self>> ELSE <<>>)} :
        /\ ~KeyUnbuilt /\ BitUnbuilt
        /\ bop' = BitCall("constructor", schema, withKey, NoFields, BigIntData(0),
                          c.err, 0, <<>>, NoFields)
        /\ IF c.err = ""
           THEN /\ definition' = c.val.definition
                /\ totalBits' = c.val.totalBits
                /\ schemaMaximumValue' = c.val.maximumValue
                /\ fieldInfo' = c.val.fieldInfo
                /\ fieldNames' = c.val.fieldNames
                /\ obfuskey' = withKey
           ELSE UNCHANGED <<definition, totalBits, schemaMaximumValue, fieldInfo,
                            fieldNames, obfuskey>>
        /\ lastPack' = NoPack
        /\ bytesCall' = NoBytes
        /\ UNCHANGED <<mathVars, codecVars, keyVars>>

\* new Obfusbit(schema, obfuskey) over the Obfuskey next to the bit limit
NewObfusbitOfPower(schema) ==
    \E c \in {ObfusbitConstructorOfPower(schema, <<self>>)} :
        /\ ~KeyUnbuilt /\ BitUnbuilt
        /\ bop' = BitCall("constructor", schema, TRUE, NoFields, BigIntData(0),
                          c.err, 0, <<>>, NoFields)
        /\ IF c.err = ""
           THEN /\ definition' = c.val.definition
                /\ totalBits' = c.val.totalBits
                /\ schemaMaximumValue' = c.val.maximumValue
                /\ fieldInfo' = c.val.fieldInfo
                /\ fieldNames' = c.val.fieldNames
                /\ obfuskey' = TRUE
           ELSE UNCHANGED <<definition, totalBits, schemaMaximumValue, fieldInfo,
                            fieldNames, obfuskey>>
        /\ lastPack' = NoPack
        /\ bytesCall' = NoBytes
        /\ UNCHANGED <<mathVars, codecVars, keyVars>>

\* obfusbit.pack(values, obfuscate) over the Obfuskey next to the bit limit
PackOfPower(values, obfuscate) ==
    /\ ~BitUnbuilt /\ MultiplierFollowed
    /\ \E r \in {packOfPower(theSchema, theKey, values, obfuscate)} :
        /\ bop' = BitCall("pack", definition, obfuscate, values, BigIntData(0),
                          r.err, r.int, r.str, NoFields)
        /\ lastPack' = IF r.err = ""
                       THEN [set |-> TRUE, values |-> values, flag |-> obfuscate,
                             data |-> IF obfuscate THEN StringData(r.str)
                                      ELSE BigIntData(r.int)]
                       ELSE NoPack
        /\ multiplier' = r.cache
    /\ bytesCall' = NoBytes
    /\ UNCHANGED <<definition, totalBits, schemaMaximumValue, fieldInfo, fieldNames,
                   obfuskey>>
    /\ UNCHANGED <<alphabet, keyLength, maximumValue, kop, lastKey, reads>>
    /\ UNCHANGED <<mathVars, codecVars>>

\* schema.validateFields(values)
ValidateFields(values) ==
    /\ ~BitUnbuilt
    /\ bop' = BitCall("validateFields", definition, FALSE, values, BigIntData(0),
                      validateFields(theSchema, values), 0,
                      validateFieldsListed(theSchema, values), NoFields)
    /\ lastPack' = NoPack
    /\ bytesCall' = NoBytes
    /\ UNCHANGED <<definition, totalBits, schemaMaximumValue, fieldInfo, fieldNames,
                   obfuskey>>
    /\ UNCHANGED <<mathVars, codecVars, keyVars>>

\* obfusbit.pack(values, obfuscate)
Pack(values, obfuscate) ==
    /\ ~BitUnbuilt
    /\ \E r \in {pack(theSchema, theKey, values, obfuscate)} :
        /\ bop' = BitCall("pack", definition, obfuscate, values, BigIntData(0),
                          r.err, r.int, r.str, NoFields)
        /\ lastPack' = IF r.err = ""
                       THEN [set |-> TRUE, values |-> values, flag |-> obfuscate,
                             data |-> IF obfuscate THEN StringData(r.str)
                                      ELSE BigIntData(r.int)]
                       ELSE NoPack
        /\ multiplier' = IF obfuskey THEN r.cache ELSE multiplier
    /\ bytesCall' = NoBytes
    /\ UNCHANGED <<definition, totalBits, schemaMaximumValue, fieldInfo, fieldNames,
                   obfuskey>>
    /\ UNCHANGED <<alphabet, keyLength, maximumValue, kop, lastKey, reads>>
    /\ UNCHANGED <<mathVars, codecVars>>

\* obfusbit.unpack(packedData, obfuscated); lastPack is kept while packedData is
\* what that pack returned and obfuscated is the flag it was called with
Unpack(packedData, obfuscated) ==
    /\ ~BitUnbuilt
    /\ \E r \in {unpack(theSchema, theKey, packedData, obfuscated)} :
        /\ bop' = BitCall("unpack", definition, obfuscated, NoFields, packedData,
                          r.err, 0, <<>>, r.val)
        /\ multiplier' = IF obfuskey THEN r.cache ELSE multiplier
    /\ lastPack' = IF /\ lastPack.set
                      /\ lastPack.flag = obfuscated
                      /\ lastPack.data = packedData
                   THEN lastPack ELSE NoPack
    /\ bytesCall' = NoBytes
    /\ UNCHANGED <<definition, totalBits, schemaMaximumValue, fieldInfo, fieldNames,
                   obfuskey>>
    /\ UNCHANGED <<alphabet, keyLength, maximumValue, kop, lastKey, reads>>
    /\ UNCHANGED <<mathVars, codecVars>>

\* What the caller can make of the array d it passed to the constructor, which
\* is the array the schema keeps and the definition and schema getters return:
\* pop, push, and assignments to the name and the bits of its first item
Mutations(d) ==
    (IF Len(d) < MaxMutatedLen THEN {Append(d, Field("x", 1))} ELSE {})
    \cup (IF d = <<>> THEN {}
          ELSE {SubSeq(d, 1, Len(d) - 1),
                [d EXCEPT ![1] = Field("b", d[1].bits)],
                [d EXCEPT ![1] = Field(d[1].name, 1)]})

\* The arrays the caller keeps
SharedDefinitions ==
    { <<>>, <<Field("a", 2)>>, <<Field("a", 1), Field("b", 2)>>,
      <<Field("a", 1), Field("a", 2)>> }

\* the caller changes the array to mutated
MutateDefinition(mutated) ==
    /\ ~BitUnbuilt
    /\ definition' = mutated
    /\ UNCHANGED <<totalBits, schemaMaximumValue, fieldInfo, fieldNames, obfuskey, bop,
                   lastPack, bytesCall>>
    /\ UNCHANGED <<mathVars, codecVars, keyVars>>

\* obfusbit.packBytes(values, byteorder)
PackBytes(values, byteorder) ==
    /\ ~BitUnbuilt
    /\ \E r \in {packBytes(theSchema, values, byteorder)} :
        /\ bop' = BitCall("packBytes", definition, FALSE, values, BigIntData(0),
                          r.err, 0, <<>>, NoFields)
        /\ bytesCall' = IF r.err = ""
                        THEN [bytes |-> r.val, byteorder |-> byteorder, packed |-> TRUE,
                              values |-> values]
                        ELSE NoBytes
    /\ lastPack' = NoPack
    /\ UNCHANGED <<definition, totalBits, schemaMaximumValue, fieldInfo, fieldNames,
                   obfuskey>>
    /\ UNCHANGED <<mathVars, codecVars, keyVars>>

\* obfusbit.unpackBytes(byteData, byteorder); bytesCall stays packed while
\* byteData is what that packBytes returned and byteorder is the order it was
\* called with
UnpackBytes(byteData, byteorder) ==
    /\ ~BitUnbuilt
    /\ \E r \in {unpackBytes(theSchema, byteData, byteorder)} :
        bop' = BitCall("unpackBytes", definition, FALSE, NoFields, BigIntData(0),
                       r.err, 0, <<>>, r.val)
    /\ bytesCall' = IF /\ bytesCall.packed
                       /\ bytesCall.byteorder = byteorder
                       /\ bytesCall.bytes = byteData
                    THEN bytesCall
                    ELSE [bytes |-> byteData, byteorder |-> byteorder,
                          packed |-> FALSE, values |-> NoFields]
    /\ lastPack' = NoPack
    /\ UNCHANGED <<definition, totalBits, schemaMaximumValue, fieldInfo, fieldNames,
                   obfuskey>>
    /\ UNCHANGED <<mathVars, codecVars, keyVars>>

\* The schemas of the Obfusbits packBytes and unpackBytes are called on: one of
\* them takes two bytes
ByteDefinitions == Definitions \cup { <<Field("a", 2), Field("b", 7)>> }

\* The Uint8Arrays unpackBytes is called with: what the last packBytes returned,
\* and arrays of at most two bytes
ByteData == {bytesCall.bytes} \cup SeqsUpTo({0, 1, 3, 255}, 2)

ByteOrders == {"big", "little"}

\* The data unpack is called with: what the last pack returned, a BigInt, a string
PackedData ==
    {lastPack.data}
    \cup {BigIntData(i) : i \in 0..(schemaMaximumValue + 1)}
    \cup {StringData(s) : s \in SeqsUpTo({"a", "b"}, 2)}

----------------------------------------------------------------------------
(* The specifications *)

MathIdle == op = NoCall /\ root = RootIdle
CodecIdle == enc = EncIdle /\ dec = DecIdle
KeyIdle ==
    /\ alphabet = <<>> /\ keyLength = 0 /\ maximumValue = 0 /\ multiplier = <<>>
    /\ kop = KeyCall("", 0, <<>>, "", 0)
    /\ lastKey = NoKey
    /\ reads = NoReads
BitIdle ==
    /\ definition = <<>> /\ totalBits = 0 /\ schemaMaximumValue = 0
    /\ fieldInfo = NoFields /\ fieldNames = {} /\ obfuskey = FALSE
    /\ bop = BitCall("", <<>>, FALSE, NoFields, BigIntData(0), "", 0, <<>>, NoFields)
    /\ lastPack = NoPack
    /\ bytesCall = NoBytes

\* The pure functions of src/math: one call, with arguments from the bounded sets
MathCalls ==
    {Pending("isPrime", <<n>>) : n \in -MaxNeg..MaxN}
    \cup {Pending("getNextPrime", <<n>>) : n \in -MaxNeg..MaxN}
    \cup {Pending("modInv", <<b, m>>) : b \in -MaxModBase..MaxModBase, m \in -1..MaxMod}
    \cup {Pending("getNextPrimeOfPower", <<k, d>>) :
              k \in (MaxBitLength - PowerMargin)..(MaxBitLength + PowerMargin),
              d \in -1..1}
    \cup {Pending("pow", <<b, e, m>>) :
              b \in -MaxPowBase..MaxPowBase, e \in -1..MaxPowExponent,
              m \in {<<>>} \cup {<<k>> : k \in -MaxPowModulus..MaxPowModulus}}

InitMath == op \in MathCalls /\ root = RootIdle /\ CodecIdle /\ KeyIdle /\ BitIdle

NextMath ==
    \/ CallIsPrime
    \/ CallGetNextPrime
    \/ CallGetNextPrimeOfPower
    \/ CallModInv
    \/ CallPow

SpecMath == InitMath /\ [][NextMath]_vars

\* One Obfuskey over two symbols whose keyLength lies next to the bit limit
InitPower == MathIdle /\ CodecIdle /\ KeyIdle /\ BitIdle

NextPower ==
    \/ \E kl \in PowerLengths, m \in PowerMultipliers : NewObfuskeyOfPower(kl, m)
    \/ ReadMultiplierOfPower
    \/ \E v \in -1..MaxPowerValue : GetKeyOfPower(v)
    \/ \E key \in PowerKeys : GetValueOfPower(key)

SpecPower == InitPower /\ [][NextPower]_vars

\* One Obfusbit over an Obfuskey of one or two characters, or over one next to
\* the bit limit, and its obfuscated pack
OfPower == keyLength > MaxKeyLength

InitPowerPack == MathIdle /\ CodecIdle /\ KeyIdle /\ BitIdle

NextPowerPack ==
    \/ \E kl \in PowerLengths, m \in PowerMultipliers : NewObfuskeyOfPower(kl, m)
    \/ \E a \in BitAlphabets, k \in 1..MaxKeyLength, m \in BitMultipliers \cup {<<-3>>} :
          NewObfuskey(a, k, m)
    \/ \E schema \in Definitions : OfPower /\ NewObfusbitOfPower(schema)
    \/ \E schema \in Definitions : ~OfPower /\ NewObfusbit(schema, TRUE)
    \/ \E values \in ValueSets : OfPower /\ PackOfPower(values, TRUE)
    \/ \E values \in ValueSets : ~OfPower /\ Pack(values, TRUE)

SpecPowerPack == InitPowerPack /\ [][NextPowerPack]_vars

\* isqrt, statement by statement; every call that has started goes on
InitIsqrt ==
    /\ op = NoCall /\ CodecIdle /\ KeyIdle /\ BitIdle
    /\ root \in {RootCall("call", n, 0, 0, 0, "", 0) : n \in -MaxNeg..MaxIsqrtN}

NextIsqrt ==
    \/ IsqrtEnter
    \/ IsqrtStep
    \/ IsqrtReturn

SpecIsqrt == InitIsqrt /\ [][NextIsqrt]_vars

\* JavaScript runs a synchronous function to its end: a step that can be taken
\* is taken
SpecIsqrtFair == SpecIsqrt /\ WF_vars(NextIsqrt)

\* The Miller-Rabin test of one base
StrongCalls ==
    {Pending("isStrongPseudoprime", <<n, b>>) : n \in 0..MaxStrongN, b \in -1..MaxStrongBase}

InitStrong == op \in StrongCalls /\ root = RootIdle /\ CodecIdle /\ KeyIdle /\ BitIdle

NextStrong == CallIsStrongPseudoprime

SpecStrong == InitStrong /\ [][NextStrong]_vars

\* encode and decode
InitCodec == MathIdle /\ CodecIdle /\ KeyIdle /\ BitIdle

NextCodec ==
    \/ \E v \in -1..MaxEncodeValue, a \in Alphabets : EncodeCall(v, a)
    \/ EncodeDecoded
    \/ EncodeStep
    \/ \E s \in SeqsUpTo(Symbols, MaxDecodeLen), a \in Alphabets : DecodeCall(s, a)
    \/ DecodeEncoded

SpecCodec == InitCodec /\ [][NextCodec]_vars

\* encode alone, iteration by iteration: a loop that has started goes on (the
\* model follows it for MaxEncodeSteps iterations)
InitEncode == MathIdle /\ CodecIdle /\ KeyIdle /\ BitIdle

NextEncode ==
    \/ \E v \in -1..MaxEncodeValue, a \in Alphabets : EncodeCall(v, a)
    \/ EncodeStep

SpecEncode == InitEncode /\ [][NextEncode]_vars

SpecEncodeFair == SpecEncode /\ WF_vars(EncodeStep)

\* One Obfuskey, from its construction on
InitKey == MathIdle /\ CodecIdle /\ KeyIdle /\ BitIdle

NextKey ==
    \/ \E a \in Alphabets, k \in -1..MaxKeyLength, m \in Multipliers : NewObfuskey(a, k, m)
    \/ ReadMultiplier
    \/ \E v \in -1..(maximumValue + 1) : GetKey(v)
    \/ \E key \in KeyStrings : GetValue(key)

SpecKey == InitKey /\ [][NextKey]_vars

\* One Obfuskey built without a multiplier, and readers of its multiplier whose
\* reads interleave statement by statement
InitLazy == MathIdle /\ CodecIdle /\ KeyIdle /\ BitIdle

NextLazy ==
    \/ \E a \in Alphabets, k \in 0..MaxKeyLength : NewObfuskey(a, k, <<>>)
    \/ \E r \in Readers : ReadTest(r)
    \/ \E r \in Readers : ReadGenerate(r)
    \/ \E r \in Readers : ReadReturn(r)
    \/ \E v \in 0..maximumValue : GetKey(v)

SpecLazy == InitLazy /\ [][NextLazy]_vars

\* One Obfusbit, from the construction of its Obfuskey on
InitBit == MathIdle /\ CodecIdle /\ KeyIdle /\ BitIdle

NextBit ==
    \/ \E a \in BitAlphabets, k \in 1..MaxKeyLength, m \in BitMultipliers :
          NewObfuskey(a, k, m)
    \/ \E schema \in Definitions, withKey \in BOOLEAN : NewObfusbit(schema, withKey)
    \/ \E values \in ValueSets : ValidateFields(values)
    \/ \E values \in ValueSets, obfuscate \in BOOLEAN : Pack(values, obfuscate)
    \/ \E data \in PackedData, obfuscated \in BOOLEAN : Unpack(data, obfuscated)

SpecBit == InitBit /\ [][NextBit]_vars

\* One schema and the assignments validated against it
InitValidate == MathIdle /\ CodecIdle /\ KeyIdle /\ BitIdle

NextValidate ==
    \/ NewObfuskey(<<"b", "a">>, 1, <<3>>)
    \/ \E schema \in Definitions : NewObfusbit(schema, FALSE)
    \/ \E values \in FaultyValueSets : ValidateFields(values)

SpecValidate == InitValidate /\ [][NextValidate]_vars

\* One Obfusbit that is given no Obfuskey, and the integers it packs
InitPack == MathIdle /\ CodecIdle /\ KeyIdle /\ BitIdle

NextPack ==
    \/ NewObfuskey(<<"b", "a">>, 1, <<3>>)
    \/ \E schema \in PackDefinitions : NewObfusbit(schema, FALSE)
    \/ \E values \in PackValueSets : Pack(values, FALSE)

SpecPack == InitPack /\ [][NextPack]_vars

\* The constructor of the schema, called until it accepts
InitSchema == MathIdle /\ CodecIdle /\ KeyIdle /\ BitIdle

NextSchema ==
    \/ NewObfuskey(<<"b", "a">>, 1, <<3>>)
    \/ \E schema \in SchemaArguments : NewObfusbit(schema, FALSE)

SpecSchema == InitSchema /\ [][NextSchema]_vars

\* One Obfusbit that is given no Obfuskey, and its byte arrays
InitBytes == MathIdle /\ CodecIdle /\ KeyIdle /\ BitIdle

NextBytes ==
    \/ \E a \in BitAlphabets : NewObfuskey(a, 1, <<3>>)
    \/ \E schema \in ByteDefinitions : NewObfusbit(schema, FALSE)
    \/ \E values \in ValueSets, byteorder \in ByteOrders : PackBytes(values, byteorder)
    \/ \E byteData \in ByteData, byteorder \in ByteOrders :
          UnpackBytes(byteData, byteorder)

SpecBytes == InitBytes /\ [][NextBytes]_vars

\* One Obfusbit that is given no Obfuskey, and the integers and byte arrays it
\* unpacks
InitUnpack == MathIdle /\ CodecIdle /\ KeyIdle /\ BitIdle

NextUnpack ==
    \/ NewObfuskey(<<"b", "a">>, 1, <<3>>)
    \/ \E schema \in ByteDefinitions : NewObfusbit(schema, FALSE)
    \/ \E i \in -MaxUnpackMargin..(schemaMaximumValue + MaxUnpackMargin) :
          Unpack(BigIntData(i), FALSE)
    \/ \E byteData \in ByteData, byteorder \in ByteOrders :
          UnpackBytes(byteData, byteorder)

SpecUnpack == InitUnpack /\ [][NextUnpack]_vars

\* One Obfusbit that is given no Obfuskey, and the caller that keeps the array
\* it built the Obfusbit from
InitShared == MathIdle /\ CodecIdle /\ KeyIdle /\ BitIdle

NextShared ==
    \/ NewObfuskey(<<"b", "a">>, 1, <<3>>)
    \/ \E schema \in SharedDefinitions : NewObfusbit(schema, FALSE)
    \/ \E mutated \in Mutations(definition) : MutateDefinition(mutated)
    \/ \E values \in ValueSets : Pack(values, FALSE)
    \/ \E data \in PackedData : Unpack(data, FALSE)

SpecShared == InitShared /\ [][NextShared]_vars

\* Everything together
Init == InitMath
Next == NextMath
Spec == SpecMath

----------------------------------------------------------------------------
(* Number theory the claims are stated with *)

Divides(d, n) == n % d = 0

IsPrimeNumber(n) == n > 1 /\ \A d \in 2..(n - 1) : ~Divides(d, n)

\* the greatest common divisor of a >= 0 and m > 0
GCD(a, m) == CHOOSE d \in 1..m : /\ Divides(d, a) /\ Divides(d, m)
                                  /\ \A e \in (d + 1)..m : ~(Divides(e, a) /\ Divides(e, m))

----------------------------------------------------------------------------
(* The claims *)

\* C8 (as stated): for n >= 0, getNextPrime(n) returns the smallest prime p with
\* p >= n, so that a prime n is returned unchanged.
C8_SmallestPrimeAtLeast ==
    (op.name = "getNextPrime" /\ op.done /\ op.args[1] >= 0) =>
        /\ op.err = ""
        /\ IsPrimeNumber(op.val)
        /\ op.val >= op.args[1]
        /\ \A p \in op.args[1]..op.val : IsPrimeNumber(p) => p = op.val

\* getNextPrime(7) skipped the prime it was called with and returned 11
C8_Witness ==
    /\ op.name = "getNextPrime" /\ op.done
    /\ op.args = <<7>>
    /\ op.err = "" /\ op.val = 11

\* C9: for every n below the trial-division limit, negatives and zero included,
\* isPrime(n) returns true exactly when n is a prime number.
C9_IsPrimeExact ==
    (op.name = "isPrime" /\ op.done /\ op.args[1] < TrialDivisionLimit) =>
        /\ op.err = ""
        /\ op.val <=> IsPrimeNumber(op.args[1])

\* isPrime refused 361 = 19 * 19, which has no factor among 2, 3, 5, 7, 11, 13
\* and 17 and is told from a prime by the last divisor trial division tries
C9_Witness ==
    /\ op.name = "isPrime" /\ op.done
    /\ op.args[1] = 361
    /\ op.val = FALSE

\* C10 (as stated): for m > 0, modInv(a, m) returns x with (x * a) mod m = 1 when
\* gcd(a mod m, m) = 1 and fails with ValueError otherwise; for m <= 0 it fails.
C10_ModInvOriginal ==
    (op.name = "modInv" /\ op.done) =>
        LET a == op.args[1]
            m == op.args[2]
        IN  IF m <= 0 THEN op.err = "NegativeValueError"
            ELSE IF GCD(a % m, m) = 1
            THEN op.err = "" /\ (op.val * a) % m = 1
            ELSE op.err = "ValueError"

\* C10 (amended): for m > 0 and gcd(a mod m, m) = 1, modInv(a, m) returns x in
\* [0, m) with (x * a) mod m = 1 mod m, which is 1 for m >= 2 and 0 for m = 1;
\* for m > 0 and gcd(a mod m, m) # 1 it fails with ValueError; for m <= 0 it
\* fails with NegativeValueError.
C10_ModInv ==
    (op.name = "modInv" /\ op.done) =>
        LET a == op.args[1]
            m == op.args[2]
        IN  IF m <= 0 THEN op.err = "NegativeValueError"
            ELSE IF GCD(a % m, m) = 1
            THEN /\ op.err = ""
                 /\ op.val \in 0..(m - 1)
                 /\ (op.val * a) % m = 1 % m
            ELSE op.err = "ValueError"

\* modInv returned the inverse of a negative base
C10_Witness ==
    /\ op.name = "modInv" /\ op.done
    /\ op.args = <<-4, 7>>
    /\ op.err = "" /\ op.val = 5

\* A canonical representation: a non-empty string over the alphabet that does not
\* start with the zero symbol, or the zero symbol alone
Canonical(str, alph) ==
    /\ Len(str) >= 1
    /\ Range(str) \subseteq Range(alph)
    /\ Len(str) = 1 \/ str[1] # alph[1]

\* encode returned, and decode was called with what it returned
DecodedTheEncoded ==
    /\ enc.pc = "done" /\ enc.err = ""
    /\ dec.called /\ dec.alphabet = enc.alphabet /\ dec.value = enc.result

\* decode returned, and encode has run to its end on what it returned
EncodedTheDecoded ==
    /\ dec.called /\ dec.err = ""
    /\ enc.pc = "done" /\ enc.alphabet = dec.alphabet /\ enc.input = dec.val

\* C7 (as stated): in any alphabet, encode(v) is defined for every v >= 0 and
\* decode(encode(v)) = v; encode(decode(s)) = s for every canonical s.
C7_CodecOriginal ==
    /\ (enc.pc = "done" /\ enc.input >= 0) => enc.err = ""
    /\ DecodedTheEncoded => (dec.err = "" /\ dec.val = enc.input)
    /\ (EncodedTheDecoded /\ Canonical(dec.value, dec.alphabet)) =>
           (enc.err = "" /\ enc.result = dec.value)

\* C7 (amended): in any alphabet of at least two symbols, encode(v) returns for
\* every v >= 0, after at most as many loop iterations as v has digits, and
\* decode(encode(v)) = v; encode(decode(s)) = s for every canonical s.  In an
\* alphabet of one symbol this holds of v = 0 and of the zero symbol alone.
C7_Codec ==
    /\ (enc.pc = "done" /\ enc.input >= 0 /\ Base(enc.alphabet) >= 2) => enc.err = ""
    /\ (enc.pc = "loop" /\ Base(enc.alphabet) >= 2 /\ Len(enc.key) > 0) =>
           IntPow(Base(enc.alphabet), Len(enc.key) - 1) <= enc.input
    /\ (DecodedTheEncoded /\ Base(enc.alphabet) >= 2) =>
           (dec.err = "" /\ dec.val = enc.input)
    /\ (EncodedTheDecoded /\ Canonical(dec.value, dec.alphabet)
            /\ Base(dec.alphabet) >= 2) =>
           (enc.err = "" /\ enc.result = dec.value)
    /\ (enc.pc = "done" /\ enc.input = 0 /\ Base(enc.alphabet) = 1) =>
           (enc.err = "" /\ enc.result = <<enc.alphabet[1]>>)
    /\ (dec.called /\ Base(dec.alphabet) = 1 /\ dec.value = <<dec.alphabet[1]>>) =>
           (dec.err = "" /\ dec.val = 0)

\* decode read "ac" over the alphabet "cab" as 3, and the loop of encode turned
\* 3 back into "ac"
C7_Witness ==
    /\ dec.called /\ dec.alphabet = <<"c", "a", "b">> /\ dec.value = <<"a", "c">>
    /\ dec.val = 3
    /\ enc.pc = "done" /\ enc.alphabet = dec.alphabet /\ enc.input = 3
    /\ Len(enc.key) = 2
    /\ enc.result = dec.value

\* The multiplier the Obfuskey holds is positive and coprime with maximumValue + 1
\* (an Obfuskey that has not needed its multiplier yet holds none)
CoprimeMultiplier ==
    /\ Base(alphabet) >= 1
    /\ multiplier # <<>> =>
          /\ multiplier[1] > 0
          /\ GCD(multiplier[1] % (maximumValue + 1), maximumValue + 1) = 1

\* C1 (as stated): on every Obfuskey that was built, getKey(v) returns a key for
\* every v in [0, maximumValue], and getValue of that key returns v.
C1_RoundTripOriginal ==
    /\ (kop.name = "getKey" /\ kop.value \in 0..maximumValue) => kop.err = ""
    /\ (kop.name = "getValue" /\ lastKey.set) =>
           (kop.err = "" /\ kop.val = lastKey.value)

\* C1 (amended): on every Obfuskey over a non-empty alphabet whose multiplier,
\* supplied or generated, is positive and coprime with maximumValue + 1,
\* getKey(v) returns a key for every v in [0, maximumValue], and getValue of that
\* key returns v.
C1_RoundTrip ==
    /\ (kop.name = "getKey" /\ kop.value \in 0..maximumValue /\ CoprimeMultiplier) =>
           kop.err = ""
    /\ (kop.name = "getValue" /\ lastKey.set /\ CoprimeMultiplier) =>
           (kop.err = "" /\ kop.val = lastKey.value)

\* getValue gave back 5 from the key getKey made of it with the generated
\* multiplier 13 over the alphabet "cab"
C1_Witness ==
    /\ alphabet = <<"c", "a", "b">> /\ keyLength = 2 /\ multiplier = <<13>>
    /\ lastKey.set /\ lastKey.value = 5 /\ lastKey.key = <<"c", "b">>
    /\ kop.name = "getValue" /\ kop.key = lastKey.key /\ kop.val = 5

\* C2 (as stated): for every v in [0, maximumValue], getKey(v) returns a string of
\* exactly keyLength characters, each a symbol of the alphabet.
C2_KeyShape ==
    (kop.name = "getKey" /\ kop.value \in 0..maximumValue) =>
        /\ kop.err = ""
        /\ Len(kop.key) = keyLength
        /\ Range(kop.key) \subseteq Range(alphabet)

\* getKey(1) threw out of encode on an Obfuskey over "abc" with keyLength 1 and
\* the odd multiplier -1: (1 * -1) % 3 is -1
C2_Witness ==
    /\ alphabet = <<"a", "b", "c">> /\ keyLength = 1 /\ multiplier = <<-1>>
    /\ kop.name = "getKey" /\ kop.value = 1 /\ kop.err = "Error"

\* C6 (as stated): the multiplier read from an Obfuskey that was built is odd.
C6_MultiplierOdd ==
    (kop.name = "multiplier" /\ kop.err = "") => kop.val % 2 = 1

\* the multiplier generated for two symbols and keyLength 1 was read as 2
C6_Witness ==
    /\ alphabet = <<"b", "a">> /\ keyLength = 1
    /\ kop.name = "multiplier" /\ kop.err = "" /\ kop.val = 2

\* The width of a schema definition and the largest value it holds
RECURSIVE Width(_)
Width(schema) == IF schema = <<>> THEN 0 ELSE Head(schema).bits + Width(Tail(schema))

Largest(schema) == IntPow(2, Width(schema)) - 1

BitsOf(schema, name) == (CHOOSE f \in Range(schema) : f.name = name).bits

\* Some value of the assignment does not fit the bits of its field
Overflows(schema, values) ==
    \E n \in DOMAIN values : values[n] < 0 \/ values[n] >= IntPow(2, BitsOf(schema, n))

C4_BitOverflow ==
    (bop.name \in {"validateFields", "pack"} /\ DOMAIN bop.values = fieldNames) =>
        /\ bop.err = "BitOverflowError" <=> Overflows(definition, bop.values)
        /\ (bop.name = "validateFields" /\ ~Overflows(definition, bop.values)) =>
               bop.err = ""

\* validateFields refused a value equal to 2^bits of its field
C4_Witness ==
    /\ bop.name = "validateFields" /\ bop.err = "BitOverflowError"
    /\ definition = <<Field("a", 1), Field("b", 2)>>
    /\ bop.values = [n \in {"a", "b"} |-> IF n = "a" THEN 2 ELSE 3]

\* C5: building an Obfusbit over a valid schema with an Obfuskey fails with
\* MaximumValueError exactly when the schema's maximumValue exceeds the
\* Obfuskey's, so an Obfusbit that holds an Obfuskey never exceeds it.
C5_Capacity ==
    /\ (bop.name = "constructor" /\ bop.flag /\ validateSchema(bop.schema) = "") =>
           (bop.err = "MaximumValueError" <=> Largest(bop.schema) > maximumValue)
    /\ (~BitUnbuilt /\ obfuskey) => schemaMaximumValue <= maximumValue

\* a schema of 3 bits was refused over an Obfuskey that holds 0 .. 3
C5_Witness ==
    /\ bop.name = "constructor" /\ bop.flag /\ bop.err = "MaximumValueError"
    /\ Largest(bop.schema) = 7 /\ maximumValue = 3

\* b^e reduced modulo m > 0 into [0, m)
PowerMod(b, e, m) == IntPow(b, e) % m

ByteLength == IF totalBits % 8 = 0 THEN totalBits \div 8 ELSE totalBits \div 8 + 1

\* C12 (as stated): for every assignment validateFields accepts and either byte
\* order, packBytes returns ceil(totalBits / 8) bytes and unpackBytes of them,
\* in the same order, returns the assignment; unpackBytes of a byte sequence of
\* another length fails.
C12_BytesRoundTrip ==
    /\ (bop.name = "packBytes" /\ validateFields(theSchema, bop.values) = "") =>
           (bop.err = "" /\ bytesCall.packed /\ Len(bytesCall.bytes) = ByteLength)
    /\ (bop.name = "unpackBytes" /\ bytesCall.packed) =>
           (bop.err = "" /\ bop.map = bytesCall.values)
    /\ (bop.name = "unpackBytes" /\ Len(bytesCall.bytes) # ByteLength) =>
           bop.err = "ValueError"

\* unpackBytes threw SyntaxError on the empty Uint8Array that packBytes({})
\* returned for the schema without fields
C12_Witness ==
    /\ definition = <<>> /\ ~BitUnbuilt
    /\ bop.name = "unpackBytes" /\ bop.err = "SyntaxError"
    /\ bytesCall.packed /\ bytesCall.bytes = <<>> /\ bytesCall.values = NoFields

\* the sum over the fields in names of value * 2^shift
RECURSIVE ShiftedSum(_, _, _)
ShiftedSum(values, info, names) ==
    IF names = {} THEN 0
    ELSE LET n == CHOOSE x \in names : TRUE
         IN  values[n] * IntPow(2, info[n].shift) + ShiftedSum(values, info, names \ {n})

\* the field of width bits at shift of packedInt
Slice(packedInt, shift, bits) == (packedInt \div IntPow(2, shift)) % IntPow(2, bits)

\* C13 (as stated): once the Obfusbit exists its field names, widths, shifts,
\* totalBits and maximumValue never change, and whatever the caller does to the
\* schema array, pack and unpack return what the schema of the construction
\* gives: pack the sum of the shifted values, unpack the slice of every field.
C13_SchemaImmutable ==
    /\ [][~BitUnbuilt =>
             UNCHANGED <<fieldInfo, fieldNames, totalBits, schemaMaximumValue>>]_vars
    /\ []((bop.name = "pack" /\ validateFields(theSchema, bop.values) = "") =>
             (bop.err = "" /\ bop.int = ShiftedSum(bop.values, fieldInfo, fieldNames)))
    /\ []((bop.name = "unpack" /\ bop.data.type = "bigint" /\ ~bop.flag) =>
             /\ bop.err = ""
             /\ bop.map = [n \in fieldNames |->
                              Slice(bop.data.int, fieldInfo[n].shift, fieldInfo[n].bits)])

\* the caller popped the last item of the array of schema [a:1, b:2], and
\* unpack(5n) returned { a: 1n } without the field b
C13_Witness ==
    /\ ~BitUnbuilt /\ fieldNames = {"a", "b"}
    /\ fieldInfo["a"] = [bits |-> 1, shift |-> 2]
    /\ definition = <<Field("a", 1)>>
    /\ bop.name = "unpack" /\ bop.data = BigIntData(5) /\ bop.err = ""
    /\ bop.map = [n \in {"a"} |-> 1]

\* the number of binary digits of n >= 0 (none for 0)
BitLength(n) == IF n = 0 THEN 0 ELSE CHOOSE b \in 1..30 : IntPow(2, b - 1) <= n /\ n < IntPow(2, b)

\* the number of binary digits of 2^k + d, for k >= 2 and d in -1 .. 1
BitLengthOfPower(k, d) == IF d < 0 THEN k ELSE k + 1

KeysInRange == {getKey(self, v).val : v \in 0..maximumValue}

\* C15 (as stated): a multiplier that generation yields for the alphabet and the
\* keyLength is a prime, is coprime with maximumValue + 1 and has an inverse
\* modulo maximumValue + 1, and with it getKey is injective on [0, maximumValue].
C15_GeneratedCoprime ==
    (/\ kop.name = "multiplier" /\ kop.err = ""
     /\ generateNextPrime(alphabet, keyLength).err = ""
     /\ generateNextPrime(alphabet, keyLength).val = kop.val) =>
        /\ IsPrimeNumber(kop.val)
        /\ GCD(kop.val % (maximumValue + 1), maximumValue + 1) = 1
        /\ modInv(kop.val, maximumValue + 1).err = ""
        /\ Cardinality(KeysInRange) = maximumValue + 1

\* the multiplier generated for two symbols and keyLength 1 is 2, it has no
\* inverse modulo 2, and getKey gives 0 and 1 the same key
C15_Witness ==
    /\ alphabet = <<"b", "a">> /\ keyLength = 1 /\ maximumValue = 1
    /\ kop.name = "multiplier" /\ kop.err = "" /\ kop.val = 2
    /\ modInv(2, 2).err = "ValueError"
    /\ getKey(self, 0).val = getKey(self, 1).val

\* The Obfuskey holds an odd multiplier that shares a factor with
\* maximumValue + 1
SharedFactorMultiplier ==
    /\ ~KeyUnbuilt /\ maximumValue >= 1
    /\ multiplier # <<>> /\ multiplier[1] % 2 = 1
    /\ GCD(Abs(multiplier[1]) % (maximumValue + 1), maximumValue + 1) > 1

\* the key of keyLength times the first symbol of the alphabet
AllZeroKey == [i \in 1..keyLength |-> alphabet[1]]

\* C16 (as stated): with a supplied odd multiplier that shares a factor with
\* maximumValue + 1, getKey succeeds for every value in [0, maximumValue], and
\* getValue of a key over the alphabet fails in the modular inverse (ValueError)
\* unless the key is the all-zero-symbol key, which decodes to 0.
C16_SharedFactor ==
    /\ (SharedFactorMultiplier /\ kop.name = "getKey" /\ kop.value \in 0..maximumValue) =>
           kop.err = ""
    /\ (/\ SharedFactorMultiplier /\ kop.name = "getValue"
        /\ Len(kop.key) = keyLength /\ Range(kop.key) \subseteq Range(alphabet)) =>
           IF kop.key = AllZeroKey THEN kop.err = "" /\ kop.val = 0
           ELSE kop.err = "ValueError"

\* over "cab" with keyLength 2 the constructor took the multiplier -3, which
\* shares the factor 3 with 9, and getKey(1) failed
C16_Witness ==
    /\ SharedFactorMultiplier
    /\ alphabet = <<"c", "a", "b">> /\ keyLength = 2 /\ multiplier = <<-3>>
    /\ kop.name = "getKey" /\ kop.value = 1 /\ kop.err # ""

\* C17: on an Obfuskey built without a multiplier, the cached multiplier is the
\* one generated from (alphabet, keyLength), every read that returns returns it,
\* under every interleaving of the reads, and a multiplier that is set is never
\* changed, not even by the write of a read that tested the field before.
C17_LazyMultiplier ==
    /\ []((~KeyUnbuilt /\ multiplier # <<>>) =>
             /\ generateNextPrime(alphabet, keyLength).err = ""
             /\ multiplier = <<generateNextPrime(alphabet, keyLength).val>>)
    /\ [](\A r \in Readers :
             (reads[r].pc = "done" /\ reads[r].err = "") =>
                 /\ multiplier # <<>>
                 /\ reads[r].val = generateNextPrime(alphabet, keyLength).val)
    /\ [][multiplier # <<>> => multiplier' = multiplier]_vars

\* both readers found the multiplier of "cab" with keyLength 2 undefined, the
\* first has written and returned 13, the second is about to write
C17_Witness ==
    /\ alphabet = <<"c", "a", "b">> /\ keyLength = 2 /\ multiplier = <<13>>
    /\ reads[1] = [pc |-> "done", err |-> "", val |-> 13]
    /\ reads[2].pc = "generate"

\* the names of S as the sequence that increases in code units
Increasing(S) ==
    CHOOSE seq \in [1..Cardinality(S) -> S] :
        \A i, j \in 1..Cardinality(S) : i < j => charCodeAt[seq[i]] < charCodeAt[seq[j]]

C19_TypeCheckFirstOriginal ==
    bop.name = "unpack" =>
        /\ (bop.flag /\ bop.data.type # "string") => bop.err = "TypeError"
        /\ (~bop.flag /\ bop.data.type # "bigint") => bop.err = "TypeError"
        /\ (bop.flag /\ bop.data.type = "string" /\ ~obfuskey) => bop.err = "ValueError"

\* C19 (amended): with obfuscated true unpack first fails with ValueError when
\* there is no Obfuskey, whatever the data, and only with an Obfuskey fails with
\* TypeError for data that is no string; with obfuscated false it fails with
\* TypeError for data that is no BigInt, with or without an Obfuskey.
C19_ObfuskeyCheckFirst ==
    bop.name = "unpack" =>
        /\ (bop.flag /\ ~obfuskey) => bop.err = "ValueError"
        /\ (bop.flag /\ obfuskey /\ bop.data.type # "string") => bop.err = "TypeError"
        /\ (~bop.flag /\ bop.data.type # "bigint") => bop.err = "TypeError"

\* unpack(1n, true) on an Obfusbit without an Obfuskey threw ValueError
C19_Witness ==
    /\ ~BitUnbuilt /\ ~obfuskey
    /\ bop.name = "unpack" /\ bop.flag /\ bop.data = BigIntData(1)
    /\ bop.err = "ValueError"

\* the bits [shift, shift + bits) of the field name
BitRange(name) == fieldInfo[name].shift..(fieldInfo[name].shift + fieldInfo[name].bits - 1)

\* C20: in a schema that was accepted the shift of a field is the sum of the
\* widths of the fields listed after it, the bit ranges of the fields are
\* pairwise disjoint and cover [0, totalBits), and pack(values, false) of values
\* that validate is the sum of value * 2^shift, within [0, maximumValue].
C20_Shifts ==
    ~BitUnbuilt =>
        /\ \A i \in 1..Len(definition) :
               /\ fieldInfo[definition[i].name].bits = definition[i].bits
               /\ fieldInfo[definition[i].name].shift =
                      Width(SubSeq(definition, i + 1, Len(definition)))
        /\ \A n, m \in fieldNames : n # m => BitRange(n) \cap BitRange(m) = {}
        /\ UNION {BitRange(n) : n \in fieldNames} = 0..(totalBits - 1)
        /\ (bop.name = "pack" /\ ~bop.flag /\ validateFields(theSchema, bop.values) = "") =>
               /\ bop.err = ""
               /\ bop.int = ShiftedSum(bop.values, fieldInfo, fieldNames)
               /\ bop.int \in 0..schemaMaximumValue

\* the schema [id:10, type:2, flag:1] packed { id: 100, type: 2, flag: 1 } to 805
C20_Witness ==
    /\ definition = IdTypeFlag /\ totalBits = 13 /\ schemaMaximumValue = 8191
    /\ fieldInfo["id"].shift = 3 /\ fieldInfo["type"].shift = 1
    /\ fieldInfo["flag"].shift = 0
    /\ bop.name = "pack" /\ bop.values = IdTypeFlagValues(100, 2, 1)
    /\ bop.err = "" /\ bop.int = 805

\* The names of the model that read as identifiers
IdentifierLike(name) == name \in {"a", "b", "c", "d", "x", "z", "id", "type", "flag"}

\* the item i of the schema is well formed and its name is not used before it
GoodItem(schema, i) ==
    /\ typeofName(schema[i]) = "string" /\ IdentifierLike(schema[i].name)
    /\ typeofBits(schema[i]) = "bigint" /\ schema[i].bits > 0
    /\ \A j \in 1..(i - 1) : schema[j].name # schema[i].name

\* C21 (as stated): the constructor accepts a schema exactly when every item has
\* an identifier-like non-empty string name, positive integer bits and a name no
\* earlier item has; otherwise it throws SchemaValidationError and no schema is
\* produced.
C21_SchemaValidation ==
    bop.name = "constructor" =>
        /\ bop.err = "" <=> \A i \in 1..Len(bop.schema) : GoodItem(bop.schema, i)
        /\ bop.err \in {"", "SchemaValidationError"}
        /\ bop.err # "" => BitUnbuilt /\ fieldNames = {} /\ definition = <<>>

\* the constructor accepted the schema whose only field has the empty name
C21_Witness ==
    /\ bop.name = "constructor" /\ bop.schema = <<Field("", 1)>> /\ bop.err = ""
    /\ ~BitUnbuilt /\ fieldNames = {""} /\ definition = <<Field("", 1)>>

\* p is the smallest prime above n
NextPrimeAfter(n, p) ==
    /\ p > n /\ IsPrimeNumber(p)
    /\ \A q \in (n + 1)..(p - 1) : ~IsPrimeNumber(q)

RECURSIVE ModPower(_, _, _)
ModPower(b, e, m) == IF e = 0 THEN 1 % m ELSE (ModPower(b, e - 1, m) * (b % m)) % m

\* n - 1 = 2^s * d with d odd, for n > 1
TwoExponent(n) == CHOOSE s \in 0..n : Divides(Pow2(s), n - 1) /\ ~Divides(Pow2(s + 1), n - 1)
OddPart(n) == (n - 1) \div Pow2(TwoExponent(n))

\* x after k squarings: base^(d * 2^k) modulo n
Squared(n, base, k) == ModPower(base, OddPart(n) * Pow2(k), n)

\* the test that squares at most `limit` times
StrongPasses(n, base, limit) ==
    \/ Squared(n, base, 0) \in {1, n - 1}
    \/ \E k \in 1..limit :
          /\ Squared(n, base, k) = n - 1
          /\ \A j \in 1..(k - 1) : Squared(n, base, j) # 1

\* the squarings of a loop of at most `limit` squarings that stops at 1 and n - 1
Squarings(n, base, limit) ==
    IF Squared(n, base, 0) \in {1, n - 1} THEN 0
    ELSE IF \E k \in 1..limit : Squared(n, base, k) \in {1, n - 1}
    THEN CHOOSE k \in 1..limit :
             /\ Squared(n, base, k) \in {1, n - 1}
             /\ \A j \in 1..(k - 1) : Squared(n, base, j) \notin {1, n - 1}
    ELSE limit

\* C23 (as stated): for odd n > 1 with n - 1 = 2^s * d, isStrongPseudoprime
\* passes when x = base^d mod n is 1 or n - 1; otherwise it squares x at most
\* s - 1 more times, passes as soon as x = n - 1, and fails as soon as x = 1 or
\* when the squarings are used up.
C23_StrongOriginal ==
    (op.name = "isStrongPseudoprime" /\ op.done /\ op.args[1] > 1 /\ op.args[1] % 2 = 1) =>
        LET n == op.args[1]
            base == op.args[2]
        IN  /\ op.err = ""
            /\ op.val.val = StrongPasses(n, base, TwoExponent(n) - 1)
            /\ op.val.squared = Squarings(n, base, TwoExponent(n) - 1)

\* C23 (amended): as stated, with at most s squarings in place of s - 1; the
\* result is that of the test with s - 1 squarings.
C23_Strong ==
    (op.name = "isStrongPseudoprime" /\ op.done /\ op.args[1] > 1 /\ op.args[1] % 2 = 1) =>
        LET n == op.args[1]
            base == op.args[2]
        IN  /\ op.err = ""
            /\ op.val.val = StrongPasses(n, base, TwoExponent(n))
            /\ op.val.val = StrongPasses(n, base, TwoExponent(n) - 1)
            /\ op.val.squared = Squarings(n, base, TwoExponent(n))

\* isStrongPseudoprime(9, 2), with 8 = 2^3 * 1, squared 2 to 4, 7 and 4 and failed
C23_Witness ==
    /\ op.name = "isStrongPseudoprime" /\ op.done /\ op.args = <<9, 2>>
    /\ op.val = [val |-> FALSE, squared |-> 3]

\* r is the integer square root of n
IsRootOf(r, n) == r >= 0 /\ r * r <= n /\ n < (r + 1) * (r + 1)

\* C24: isqrt(n) terminates for every n; for n >= 0 it returns the one r >= 0
\* with r * r <= n < (r + 1) * (r + 1), after a number of Newton steps that stays
\* below the number of binary digits of n, and for n < 0 it fails with
\* RangeError.
C24_Isqrt ==
    /\ <>(root.pc = "done")
    /\ [](root.pc = "done" =>
            /\ root.n >= 0 => root.err = "" /\ IsRootOf(root.val, root.n)
            /\ root.n >= 0 => \A r \in 0..root.n : IsRootOf(r, root.n) => r = root.val
            /\ root.n < 0 => root.err = "RangeError")
    /\ [](root.n >= 0 => root.steps <= BitLength(root.n))

\* isqrt(300) returned 17 after the Newton steps from 32 to 20 and 17
C24_Witness ==
    /\ root.pc = "done" /\ root.n = 300 /\ root.err = "" /\ root.val = 17
    /\ root.steps = 2

\* the number of binary digits of the target of the generation for 2^kl - 1
TargetBits(kl) == kl + 1

\* the generation of the multiplier of the Obfuskey that is built throws: no
\* multiplier is stored and the target has more than 512 binary digits
GenerationFails == ~KeyUnbuilt /\ multiplier = <<>> /\ TargetBits(keyLength) > 512

\* C28: when the generation of the multiplier fails for a target beyond 512
\* bits, the constructor has succeeded, the object and its empty multiplier
\* cache never change, getKey(0) and getValue of the all-zero-symbol key succeed,
\* and every getKey of a non-zero value in range and every read of multiplier
\* throws MaximumValueError, on every call.
C28_GenerationFails ==
    /\ [](/\ \A k \in 2..20 :
                getBitLength(targetValue(getMaxValue(<<"b", "a">>, k).val)).val
                    = TargetBits(k)
          /\ kop.name = "constructor" => kop.err = ""
          /\ GenerationFails =>
                /\ (kop.name = "getKey" /\ kop.value = 0) =>
                       kop.err = "" /\ kop.key = [i \in 1..keyLength |-> "b"]
                /\ (kop.name = "getValue" /\ kop.key = [i \in 1..keyLength |-> "b"]) =>
                       kop.err = "" /\ kop.val = 0
                /\ (kop.name = "getKey" /\ kop.value > 0) =>
                       kop.err = "MaximumValueError"
                /\ kop.name = "multiplier" => kop.err = "MaximumValueError")
    /\ [][GenerationFails =>
            /\ multiplier' = <<>>
            /\ UNCHANGED <<alphabet, keyLength, maximumValue>>]_vars

\* getKey(1) of the object of 512 two-symbol characters threw MaximumValueError
\* and the cache is still empty
C28_Witness ==
    /\ GenerationFails /\ keyLength = 512
    /\ kop.name = "getKey" /\ kop.value = 1 /\ kop.err = "MaximumValueError"
    /\ lastKey = NoKey

\* the integer pack hands to getKey lies in [0, maximumValue] of the Obfuskey
PackedInRange ==
    LET packedInt == ShiftedSum(bop.values, fieldInfo, fieldNames)
    IN  packedInt >= 0 /\ (~OfPower => packedInt <= maximumValue)

\* C25 (as stated): on an Obfusbit with an obfuscator, pack(values, true) never
\* fails with MaximumValueError or NegativeValueError, because the packed
\* integer of an assignment that validates lies in [0, obfuscator.maximumValue].
C25_PackAcceptedOriginal ==
    (bop.name = "pack" /\ bop.flag /\ obfuskey) =>
        /\ bop.err \notin {"MaximumValueError", "NegativeValueError"}
        /\ validateFields(theSchema, bop.values) = "" => PackedInRange

\* C25 (amended): the packed integer of an assignment that validates lies in
\* [0, obfuscator.maximumValue], so pack(values, true) never fails with
\* NegativeValueError and never with the MaximumValueError of the range check;
\* it fails with MaximumValueError exactly when the packed integer is not 0, no
\* multiplier is stored and its generation throws for a target beyond 512 bits.
C25_PackAccepted ==
    (bop.name = "pack" /\ bop.flag /\ obfuskey) =>
        /\ bop.err # "NegativeValueError"
        /\ validateFields(theSchema, bop.values) = "" => PackedInRange
        /\ bop.err = "MaximumValueError" <=>
               /\ validateFields(theSchema, bop.values) = ""
               /\ ShiftedSum(bop.values, fieldInfo, fieldNames) # 0
               /\ OfPower /\ GenerationFails

\* pack({a: 2, b: 3}, true) over the Obfuskey of 512 two-symbol characters and
\* the multiplier 3 returned the key of 3 * 14 = 42 = 101010
C25_Witness ==
    /\ bop.name = "pack" /\ bop.flag /\ obfuskey /\ bop.err = ""
    /\ keyLength = 512 /\ multiplier = <<3>>
    /\ definition = <<Field("b", 2), Field("a", 2)>>
    /\ bop.values = [n \in {"a", "b"} |-> IF n = "a" THEN 2 ELSE 3]
    /\ bop.str = [i \in 1..506 |-> "b"] \o <<"a", "b", "a", "b", "a", "b">>

\* the number a byte array stands for, most significant byte first
RECURSIVE BytesValue(_)
BytesValue(bytes) ==
    IF bytes = <<>> THEN 0
    ELSE BytesValue(SubSeq(bytes, 1, Len(bytes) - 1)) * 256 + bytes[Len(bytes)]

\* the number unpackBytes read from its byte array
UnpackedBytesValue ==
    BytesValue(IF bytesCall.byteorder = "big" THEN bytesCall.bytes
               ELSE Reverse(bytesCall.bytes))

\* pack(values, false) of the values the last call returned
Repacked == pack(theSchema, <<>>, bop.map, FALSE)

\* C26 (as stated): unpack(x, false) fails for x < 0 and for x > maximumValue, so
\* that pack(unpack(x, false), false) = x whenever unpack succeeds; unpackBytes
\* fails likewise for bytes with a bit set above totalBits.
C26_UnpackRejectsOriginal ==
    /\ (bop.name = "unpack" /\ ~bop.flag /\ bop.data.type = "bigint") =>
           /\ (bop.data.int < 0 \/ bop.data.int > schemaMaximumValue) => bop.err # ""
           /\ bop.err = "" => Repacked.err = "" /\ Repacked.int = bop.data.int
    /\ (bop.name = "unpackBytes" /\ Len(bytesCall.bytes) = ByteLength) =>
           /\ UnpackedBytesValue > schemaMaximumValue => bop.err # ""
           /\ bop.err = "" => Repacked.err = "" /\ Repacked.int = UnpackedBytesValue

\* C26 (amended): unpack(x, false) succeeds for every integer x and returns the
\* fields of the low totalBits bits of x in two's complement, so that
\* pack(unpack(x, false), false) = x mod 2^totalBits, which is x exactly for
\* 0 <= x <= maximumValue; unpackBytes does the same with the number its bytes
\* stand for, and throws SyntaxError for the schema without fields.
C26_UnpackMasks ==
    /\ (bop.name = "unpack" /\ ~bop.flag /\ bop.data.type = "bigint") =>
           /\ bop.err = ""
           /\ \A n \in fieldNames :
                  bop.map[n] = Slice(bop.data.int, fieldInfo[n].shift, fieldInfo[n].bits)
           /\ Repacked.err = ""
           /\ Repacked.int = bop.data.int % IntPow(2, totalBits)
           /\ Repacked.int = bop.data.int <=> bop.data.int \in 0..schemaMaximumValue
    /\ (bop.name = "unpackBytes" /\ Len(bytesCall.bytes) = ByteLength) =>
           IF totalBits = 0 THEN bop.err = "SyntaxError"
           ELSE /\ bop.err = ""
                /\ Repacked.err = ""
                /\ Repacked.int = UnpackedBytesValue % IntPow(2, totalBits)

\* unpack(-1, false) over [a:1, b:2] returned {a: 1, b: 3}, which packs to 7
C26_Witness ==
    /\ bop.name = "unpack" /\ ~bop.flag /\ bop.data = BigIntData(-1) /\ bop.err = ""
    /\ definition = <<Field("a", 1), Field("b", 2)>>
    /\ bop.map = [n \in {"a", "b"} |-> IF n = "a" THEN 1 ELSE 3]
    /\ Repacked.int = 7

\* the strings of exactly keyLength symbols of the alphabet
FullKeys == {k \in SeqsUpTo(Range(alphabet), keyLength) : Len(k) = keyLength}

\* The multiplier of the Obfuskey, supplied or generated, is coprime with
\* maximumValue + 1
CoprimeWithKeySpace ==
    /\ ~KeyUnbuilt /\ maximumValue >= 0
    /\ multiplierGetter(self).err = ""
    /\ GCD(Abs(multiplierGetter(self).val) % (maximumValue + 1), maximumValue + 1) = 1

\* C27 (as stated): with a multiplier coprime with maximumValue + 1, getValue(k)
\* of every string k of keyLength symbols of the alphabet returns a value in
\* [0, maximumValue] whose key is k, getKey maps [0, maximumValue] one to one
\* onto those strings, and only 0 has the all-zero-symbol key.
C27_Bijection ==
    CoprimeWithKeySpace =>
        /\ (kop.name = "getValue" /\ kop.key \in FullKeys) =>
               /\ kop.err = "" /\ kop.val \in 0..maximumValue
               /\ getKey(self, kop.val).err = ""
               /\ getKey(self, kop.val).val = kop.key
        /\ (kop.name = "getKey" /\ kop.value \in 0..maximumValue) =>
               /\ kop.err = "" /\ kop.key \in FullKeys
               /\ kop.key = [i \in 1..keyLength |-> alphabet[1]] => kop.value = 0
               /\ KeysInRange = FullKeys
               /\ Cardinality(KeysInRange) = maximumValue + 1

\* over the alphabet "cab" with keyLength 1 and the multiplier -1, getValue("a")
\* returned 2, and getKey(2) throws
C27_Witness ==
    /\ alphabet = <<"c", "a", "b">> /\ keyLength = 1 /\ multiplier = <<-1>>
    /\ kop.name = "getValue" /\ kop.key = <<"a">> /\ kop.err = "" /\ kop.val = 2
    /\ getKey(self, 2).err = "Error"

PrimeArguments ==
    (0..MaxStrongN)
    \cup {bases[k] : k \in 1..Len(bases)}
    \cup (TrialDivisionLimit..(TrialDivisionLimit + MaxAboveLimit))

PrimeCalls ==
    {Pending("isPrime", <<n>>) : n \in PrimeArguments}
    \cup {Pending("isSmallStrongPseudoprime", <<n>>) : n \in PrimeArguments}

InitPrime == op \in PrimeCalls /\ root = RootIdle /\ CodecIdle /\ KeyIdle /\ BitIdle

NextPrime ==
    \/ CallIsPrime
    \/ CallIsSmallStrongPseudoprime

SpecPrime == InitPrime /\ [][NextPrime]_vars

\* n is prime: no d with d * d <= n divides it
IsPrimeBySquares(n) ==
    n > 1 /\ \A d \in 2..MaxN : d * d <= n => ~Divides(d, n)

DividesBase(n) == \E k \in 1..Len(bases) : Divides(n, bases[k])

\* isPrime(n) gets past its small factors and its trial division
ReachesWitnesses(n) ==
    /\ n >= TrialDivisionLimit
    /\ JsRem(n, 2) # 0 /\ JsRem(n, 3) # 0 /\ JsRem(n, 5) # 0
    /\ gcd(n, SmallPrimeProduct) = 1

\* C30: isPrime never returns false for a prime. isSmallStrongPseudoprime(p) is
\* false for every prime p that divides one of its witness bases, each of these
\* primes is below the trial-division limit, and so no prime that isPrime hands
\* to the witness bases divides one of them.
C30_PrimesAccepted ==
    /\ \A k \in 1..Len(bases) : bases[k] < TrialDivisionLimit
    /\ MaxN * MaxN >= TrialDivisionLimit + MaxAboveLimit
    /\ (op.done /\ op.name \in {"isPrime", "isSmallStrongPseudoprime"}) =>
           LET n == op.args[1]
           IN  /\ op.err = ""
               /\ (op.name = "isPrime" /\ IsPrimeBySquares(n)) => op.val = TRUE
               /\ (op.name = "isSmallStrongPseudoprime" /\ IsPrimeBySquares(n)) =>
                      (op.val = FALSE <=> DividesBase(n))
               /\ (IsPrimeBySquares(n) /\ DividesBase(n)) => n < TrialDivisionLimit
               /\ (IsPrimeBySquares(n) /\ ReachesWitnesses(n)) => ~DividesBase(n)

\* isPrime accepted 2000003, the first prime it hands to the witness bases
C30_Witness ==
    /\ op.name = "isPrime" /\ op.done
    /\ op.args[1] = 2000003
    /\ ReachesWitnesses(op.args[1])
    /\ op.val = TRUE

====
